---- MODULE Spec2Model ----
(***************************************************************************)
(* Alert dispatch, camera worker life cycle and risk scoring of the        *)
(* WatchHer surveillance system.                                           *)
(*                                                                         *)
(*   src/src/utils/alert_system.py          trigger_alert and its helpers  *)
(*   src/surveillance_system/database.py    insert_alert                   *)
(*   src/surveillance_system/config.py      the settings                   *)
(*   src/surveillance_system/camera_processor.py                           *)
(*                       the standalone pipeline: run, stop, scoring       *)
(*   src/src/core/camera_processor.py       the core pipeline: video       *)
(*                                          worker and risk score          *)
(*   src/src/core/ai_analyzer.py            the safety analysis            *)
(***************************************************************************)
EXTENDS Integers, Naturals, Sequences, FiniteSets, Bags, TLC

\* ------------------------------------------------------------------------
\* Configuration (config.py)
\* ------------------------------------------------------------------------

\* ALERT_SETTINGS['alert_cooldown'], in seconds
alert_cooldown == 300

\* ALERT_SETTINGS['max_stored_alerts'] (1000 in config.py), scaled down so
\* that the housekeeping step has files to evict
max_stored_alerts == 2

\* keys of config.CAMERAS
Cameras == {"camera_1", "camera_2"}

\* alert types of the calls made under Spec and SpecShared: two of the
\* types the camera processor passes to trigger_alert
AlertTypes == {"distress_signal", "surrounded"}

\* ------------------------------------------------------------------------
\* Bounds of the model
\* ------------------------------------------------------------------------

\* the wall clock stops advancing once it has reached MaxTime seconds
MaxTime == 300

\* number of failures (image write, database write, file removal, an
\* exception of the analysis or of the scoring) injected in one behaviour
MaxFaults == 1

\* number of trigger_alert calls made in one behaviour
MaxCalls == 3

\* number of frames the video source delivers in one behaviour
MaxFrames == 2

\* camera worker threads
Workers == {"w1", "w2"}

\* amounts by which the wall clock advances in one step
ClockSteps == {alert_cooldown - 1, alert_cooldown, alert_cooldown + 1}

NoTime == 0 - 1

VARIABLES
    now,                   \* datetime.datetime.now(), in seconds
    last_alert_times,      \* global dict (camera_id, alert_type) -> datetime
    alerts,                \* rows of the alerts table (a bag)
    snapshots,             \* .jpg files of snapshot_dir: [name, mtime]
    log_lines,             \* number of [ALERT] lines printed
    error_lines,           \* number of [ERROR] lines printed by insert_alert
    faults,                \* failures injected so far
    calls,                 \* trigger_alert calls made so far
    camera_id,             \* camera_id of the processor run by each worker
    tpc,                   \* position of each worker inside trigger_alert
    alert_type,            \* argument alert_type of the call in progress
    alert_key,             \* local alert_key
    current_time,          \* local current_time
    time_since_last_alert, \* local time_since_last_alert (NoTime: no entry)
    snapshot_saved,        \* local snapshot_saved: "none", "ok", "failed"
    db_result,             \* what insert_alert returned: "none", "stored", "failed"
    result,                \* value returned by the last call of each worker
    lastTrue,              \* history: current_time of the last call that
                           \* returned True, per (camera_id, alert_type)
    detections,            \* the detections of the current frame
    clock,                 \* datetime.now().time(), in minutes after midnight
    spc,                   \* which scoring was applied: "input", "core",
                           \* "legacy", "threat"
    risk_score,            \* score returned by the core pipeline
    final_risk,            \* score returned by the standalone _calculate_risk_score
    threat_score,          \* score returned by _analyze_threat_level
    safety_alerts,         \* result of analyze_women_safety_scenarios
    pending,               \* alert types still to be passed to trigger_alert
    variant,               \* the pipeline of the processor: "legacy", "core"
    running,               \* self.running (standalone), self.is_running (core)
    stop_processing,       \* self.stop_processing (core)
    cap_open,              \* self.cap is set and opened
    file_exists,           \* os.path.exists(self.camera_url)
    cpc,                   \* the controlling thread: "created", "started",
                           \* "joining", "stopped"
    wpc,                   \* position of the worker thread
    frames,                \* frames read so far
    fault,                 \* what was raised on the current frame: "none",
                           \* "analysis", "scoring"
    fault_seen,            \* history: something was raised on some frame
    stop_called,           \* history: stop() has set the flags
    current_risk_score,    \* self.current_risk_score (core)
    frame_shape,           \* frame.shape[:2], <<h, w>>
    person_results,        \* the persons found by the pose detector in the
                           \* frame, with the attributes the face analysis
                           \* will give them
    object_results,        \* the boxes the object detector found in the frame
    harmful_objects,       \* the validated objects of the frame, by confidence
    runs,                  \* number of times the frame was analysed
    women_analysed,        \* what the safety analysis computed for each woman
    first_run,             \* history: what the first analysis returned
    surrounded_marks,      \* the 'surrounded' key that the standalone
                           \* _calculate_risk_score writes into each detection
    thread_pos,            \* position of each thread made by start(): "unborn",
                           \* "entry", "precheck", "loop", "done"
    self_thread,           \* self.thread, self.processing_thread (0: None)
    start_pc,              \* position of each caller inside start()
    starts,                \* calls of start() made so far
    camera_processor,      \* app.py: global camera_processor (0: None)
    is_running,            \* app.py: is_running of each processor made
    processing_active,     \* app.py: global processing_active
    source_type,           \* app.py: global source_type ("none": None)
    processor_lock,        \* app.py: the request holding processor_lock
    rpc,                   \* app.py: position of each request handler
    requests,              \* app.py: requests received so far
    deref,                 \* history: what the last process_live_frame found
                           \* behind camera_processor
    resets,                \* calls of clear_cooldowns made so far
    fresh,                 \* history: the keys for which no call of
                           \* trigger_alert has begun since the last reset
    after_reset            \* history: the call of each worker was the first
                           \* of its key to begin after a reset

alertLocals == <<calls, camera_id, tpc, alert_type, alert_key, current_time,
                 time_since_last_alert, snapshot_saved, db_result, result,
                 lastTrue>>

alertVars == <<now, last_alert_times, alerts, snapshots, log_lines, error_lines, faults,
               alertLocals>>

frameVars == <<detections, clock, spc, risk_score, final_risk, threat_score,
               safety_alerts, pending>>

lifeVars == <<variant, running, stop_processing, cap_open, file_exists, cpc, wpc,
              frames, fault, fault_seen, stop_called, current_risk_score>>

inputVars == <<frame_shape, person_results, object_results,
               harmful_objects, runs, women_analysed,
               first_run, surrounded_marks>>

startVars == <<thread_pos, self_thread, start_pc, starts>>

appVars == <<camera_processor, is_running, processing_active, source_type,
             processor_lock, rpc, requests, deref>>

resetVars == <<resets, fresh, after_reset>>

vars == <<alertVars, frameVars, lifeVars, inputVars, startVars, appVars, resetVars>>

sharedAlertState == <<last_alert_times, alerts, snapshots, log_lines, error_lines>>

Keys == Cameras \X AlertTypes

\* a cooldown kept per camera only
AlertKeyPerCamera(cam, type) == <<cam, "any">>

\* alert_key = (camera_id, alert_type)
AlertKey(cam, type) == <<cam, type>>

\* dict assignment d[k] = v
DictSet(d, k, v) == [x \in (DOMAIN d) \cup {k} |-> IF x = k THEN v ELSE d[x]]

\* a cooldown test that still rejects at exactly alert_cooldown seconds
InCooldownInclusive(times, key, t) ==
    /\ key \in DOMAIN times
    /\ t - times[key] <= alert_cooldown

\* the cooldown test of trigger_alert: true when the call is rejected
InCooldown(times, key, t) ==
    /\ key \in DOMAIN times
    /\ t - times[key] < alert_cooldown

\* ------------------------------------------------------------------------
\* The wall clock
\* ------------------------------------------------------------------------
Tick ==
    /\ UNCHANGED <<frameVars, lifeVars>>
    /\ \E d \in ClockSteps :
          /\ now + d <= MaxTime
          /\ now' = now + d
    /\ UNCHANGED <<last_alert_times, alerts, snapshots, log_lines, error_lines, faults, calls,
                   camera_id, tpc, alert_type, alert_key, current_time,
                   time_since_last_alert, snapshot_saved, db_result, result,
                   lastTrue>>
    /\ UNCHANGED <<inputVars, startVars, appVars, resetVars>>

\* ------------------------------------------------------------------------
\* trigger_alert(frame, camera_id, alert_type, details, threat_score)
\* ------------------------------------------------------------------------

\* lines 30-32: build the key and read the clock
Call(w) ==
    /\ tpc[w] = "idle"
    /\ UNCHANGED <<frameVars, lifeVars>>
    /\ calls < MaxCalls
    /\ calls' = calls + 1
    /\ \E type \in AlertTypes :
          /\ alert_type' = [alert_type EXCEPT ![w] = type]
          /\ alert_key' = [alert_key EXCEPT ![w] = AlertKey(camera_id[w], type)]
          /\ after_reset' = [after_reset EXCEPT ![w] = <<camera_id[w], type>> \in fresh]
          /\ fresh' = fresh \ {<<camera_id[w], type>>}
          /\ UNCHANGED resets
    /\ current_time' = [current_time EXCEPT ![w] = now]
    /\ time_since_last_alert' = [time_since_last_alert EXCEPT ![w] = NoTime]
    /\ snapshot_saved' = [snapshot_saved EXCEPT ![w] = "none"]
    /\ db_result' = [db_result EXCEPT ![w] = "none"]
    /\ tpc' = [tpc EXCEPT ![w] = "check"]
    /\ UNCHANGED <<now, last_alert_times, alerts, snapshots, log_lines, error_lines, faults,
                   camera_id, result, lastTrue>>
    /\ UNCHANGED <<inputVars, startVars, appVars>>

\* a rejection that restarts the cooldown of the key
CheckRejectRefreshing(w) ==
    /\ tpc[w] = "check"
    /\ UNCHANGED <<frameVars, lifeVars>>
    /\ InCooldown(last_alert_times, alert_key[w], current_time[w])
    /\ time_since_last_alert' = [time_since_last_alert EXCEPT
          ![w] = current_time[w] - last_alert_times[alert_key[w]]]
    /\ last_alert_times' = DictSet(last_alert_times, alert_key[w], current_time[w])
    /\ result' = [result EXCEPT ![w] = FALSE]
    /\ tpc' = [tpc EXCEPT ![w] = "idle"]
    /\ UNCHANGED <<now, alerts, snapshots, log_lines, error_lines, faults, calls,
                   camera_id, alert_type, alert_key, current_time,
                   snapshot_saved, db_result, lastTrue>>
    /\ UNCHANGED <<inputVars, startVars, appVars, resetVars>>

\* lines 34-38: the call is rejected while the key is in its cooldown
CheckReject(w) ==
    /\ tpc[w] = "check"
    /\ UNCHANGED <<frameVars, lifeVars>>
    /\ InCooldown(last_alert_times, alert_key[w], current_time[w])
    /\ time_since_last_alert' = [time_since_last_alert EXCEPT
          ![w] = current_time[w] - last_alert_times[alert_key[w]]]
    /\ result' = [result EXCEPT ![w] = FALSE]
    /\ tpc' = [tpc EXCEPT ![w] = "idle"]
    /\ UNCHANGED <<now, last_alert_times, alerts, snapshots, log_lines, error_lines, faults, calls,
                   camera_id, alert_type, alert_key, current_time,
                   snapshot_saved, db_result, lastTrue>>
    /\ UNCHANGED <<inputVars, startVars, appVars, resetVars>>

\* lines 34-51: the call passes the cooldown test and logs the alert
CheckPass(w) ==
    /\ tpc[w] = "check"
    /\ UNCHANGED <<frameVars, lifeVars>>
    /\ ~InCooldown(last_alert_times, alert_key[w], current_time[w])
    /\ time_since_last_alert' = [time_since_last_alert EXCEPT
          ![w] = IF alert_key[w] \in DOMAIN last_alert_times
                 THEN current_time[w] - last_alert_times[alert_key[w]]
                 ELSE NoTime]
    /\ log_lines' = log_lines + 1
    /\ tpc' = [tpc EXCEPT ![w] = "snapshot"]
    /\ UNCHANGED error_lines
    /\ UNCHANGED <<now, calls, last_alert_times, alerts, snapshots, faults,
                   camera_id, alert_type, alert_key, current_time,
                   snapshot_saved, db_result, result, lastTrue>>
    /\ UNCHANGED <<inputVars, startVars, appVars, resetVars>>

\* lines 53-59 and _save_alert_snapshot: the file is named after camera,
\* type and current_time; a failed write is reported as False
SnapshotFile(w) == [name |-> <<camera_id[w], alert_type[w], current_time[w]>>,
                    mtime |-> now]

WriteFile(files, f) == {g \in files : g.name # f.name} \cup {f}

\* a trigger_alert that gives up when the snapshot cannot be written
SaveSnapshotOrAbort(w) ==
    /\ tpc[w] = "snapshot"
    /\ UNCHANGED <<frameVars, lifeVars>>
    /\ \/ /\ snapshots' = WriteFile(snapshots, SnapshotFile(w))
          /\ snapshot_saved' = [snapshot_saved EXCEPT ![w] = "ok"]
          /\ tpc' = [tpc EXCEPT ![w] = "insert"]
          /\ UNCHANGED <<faults, result>>
       \/ /\ faults < MaxFaults
          /\ faults' = faults + 1
          /\ snapshot_saved' = [snapshot_saved EXCEPT ![w] = "failed"]
          /\ result' = [result EXCEPT ![w] = FALSE]
          /\ tpc' = [tpc EXCEPT ![w] = "idle"]
          /\ UNCHANGED snapshots
    /\ UNCHANGED <<now, calls, last_alert_times, alerts, log_lines, error_lines,
                   camera_id, alert_type, alert_key, current_time,
                   time_since_last_alert, db_result, lastTrue>>
    /\ UNCHANGED <<inputVars, startVars, appVars, resetVars>>

SaveSnapshot(w) ==
    /\ tpc[w] = "snapshot"
    /\ UNCHANGED <<frameVars, lifeVars>>
    /\ \/ /\ snapshots' = WriteFile(snapshots, SnapshotFile(w))
          /\ snapshot_saved' = [snapshot_saved EXCEPT ![w] = "ok"]
          /\ UNCHANGED faults
       \/ /\ faults < MaxFaults
          /\ faults' = faults + 1
          /\ snapshot_saved' = [snapshot_saved EXCEPT ![w] = "failed"]
          /\ UNCHANGED snapshots
    /\ tpc' = [tpc EXCEPT ![w] = "insert"]
    /\ UNCHANGED <<now, calls, last_alert_times, alerts, log_lines, error_lines,
                   camera_id, alert_type, alert_key, current_time,
                   time_since_last_alert, db_result, result, lastTrue>>
    /\ UNCHANGED <<inputVars, startVars, appVars, resetVars>>

\* the row written by insert_alert
AlertRow(w) == [camera_id |-> camera_id[w], alert_type |-> alert_type[w],
                timestamp |-> now]

\* an insert_alert that lets the exception of the database leave
\* trigger_alert
InsertAlertUnguarded(w) ==
    /\ tpc[w] = "insert"
    /\ UNCHANGED <<frameVars, lifeVars>>
    /\ \/ /\ alerts' = alerts (+) SetToBag({AlertRow(w)})
          /\ db_result' = [db_result EXCEPT ![w] = "stored"]
          /\ tpc' = [tpc EXCEPT ![w] = "update"]
          /\ UNCHANGED <<faults, error_lines>>
       \/ /\ faults < MaxFaults
          /\ faults' = faults + 1
          /\ db_result' = [db_result EXCEPT ![w] = "failed"]
          /\ tpc' = [tpc EXCEPT ![w] = "raised"]
          /\ UNCHANGED <<alerts, error_lines>>
    /\ UNCHANGED <<now, calls, last_alert_times, snapshots, log_lines,
                   camera_id, alert_type, alert_key, current_time,
                   time_since_last_alert, snapshot_saved, result, lastTrue>>
    /\ UNCHANGED <<inputVars, startVars, appVars, resetVars>>

\* line 62 and insert_alert, lines 54-70: a row stamped with datetime.now();
\* a failing write is caught inside insert_alert, which prints an [ERROR]
\* line and returns False; trigger_alert does not look at the value
InsertAlert(w) ==
    /\ tpc[w] = "insert"
    /\ UNCHANGED <<frameVars, lifeVars>>
    /\ \/ /\ alerts' = alerts (+) SetToBag({AlertRow(w)})
          /\ db_result' = [db_result EXCEPT ![w] = "stored"]
          /\ UNCHANGED <<faults, error_lines>>
       \/ /\ faults < MaxFaults
          /\ faults' = faults + 1
          /\ db_result' = [db_result EXCEPT ![w] = "failed"]
          /\ error_lines' = error_lines + 1
          /\ UNCHANGED alerts
    /\ tpc' = [tpc EXCEPT ![w] = "update"]
    /\ UNCHANGED <<now, calls, last_alert_times, snapshots, log_lines,
                   camera_id, alert_type, alert_key, current_time,
                   time_since_last_alert, snapshot_saved, result, lastTrue>>
    /\ UNCHANGED <<inputVars, startVars, appVars, resetVars>>

\* a trigger_alert that forgets to record the time of the alert
UpdateCooldownForgotten(w) ==
    /\ tpc[w] = "update"
    /\ UNCHANGED <<frameVars, lifeVars>>
    /\ tpc' = [tpc EXCEPT ![w] = "cleanup"]
    /\ UNCHANGED <<now, last_alert_times, alerts, snapshots, log_lines, error_lines, faults,
                   calls, camera_id, alert_type, alert_key, current_time,
                   time_since_last_alert, snapshot_saved, db_result, result,
                   lastTrue>>
    /\ UNCHANGED <<inputVars, startVars, appVars, resetVars>>

\* line 65: last_alert_times[alert_key] = current_time
UpdateCooldown(w) ==
    /\ tpc[w] = "update"
    /\ UNCHANGED <<frameVars, lifeVars>>
    /\ last_alert_times' = DictSet(last_alert_times, alert_key[w], current_time[w])
    /\ tpc' = [tpc EXCEPT ![w] = "cleanup"]
    /\ UNCHANGED <<now, alerts, snapshots, log_lines, error_lines, faults, calls,
                   camera_id, alert_type, alert_key, current_time,
                   time_since_last_alert, snapshot_saved, db_result, result,
                   lastTrue>>
    /\ UNCHANGED <<inputVars, startVars, appVars, resetVars>>

\* _cleanup_old_alerts: the files sorted by mtime, the first
\* len - max_alerts of them removed; files of equal mtime come in the
\* order of os.listdir, which is arbitrary
Excess(files) == IF Cardinality(files) > max_stored_alerts
                 THEN Cardinality(files) - max_stored_alerts
                 ELSE 0

\* a housekeeping that removes the newest files
NewestFirst(files, removed) ==
    /\ removed \subseteq files
    /\ Cardinality(removed) = Excess(files)
    /\ \A r \in removed : \A k \in files \ removed : r.mtime >= k.mtime

OldestFirst(files, removed) ==
    /\ removed \subseteq files
    /\ Cardinality(removed) = Excess(files)
    /\ \A r \in removed : \A k \in files \ removed : r.mtime <= k.mtime

\* lines 68-70: housekeeping, then return True
CleanupAndReturn(w) ==
    /\ tpc[w] = "cleanup"
    /\ UNCHANGED <<frameVars, lifeVars>>
    /\ \E removed \in SUBSET snapshots :
          /\ OldestFirst(snapshots, removed)
          /\ \/ /\ snapshots' = snapshots \ removed
                /\ UNCHANGED faults
             \/ /\ removed # {}
                /\ faults < MaxFaults
                /\ faults' = faults + 1
                /\ \E kept \in removed : snapshots' = (snapshots \ removed) \cup {kept}
    /\ result' = [result EXCEPT ![w] = TRUE]
    /\ lastTrue' = DictSet(lastTrue, <<camera_id[w], alert_type[w]>>, current_time[w])
    /\ tpc' = [tpc EXCEPT ![w] = "idle"]
    /\ UNCHANGED <<now, calls, last_alert_times, alerts, log_lines, error_lines,
                   camera_id, alert_type, alert_key, current_time,
                   time_since_last_alert, snapshot_saved, db_result>>
    /\ UNCHANGED <<inputVars, startVars, appVars, resetVars>>

TriggerAlert(w) ==
    \/ Call(w)
    \/ CheckReject(w)
    \/ CheckPass(w)
    \/ SaveSnapshot(w)
    \/ InsertAlert(w)
    \/ UpdateCooldown(w)
    \/ CleanupAndReturn(w)

\* the most calls of clear_cooldowns in one behaviour
MaxResets == 2

\* clear_cooldowns(), lines 212-218: empties last_alert_times, whatever the
\* calls of trigger_alert in progress are doing (the function takes no lock)
ClearCooldowns ==
    /\ resets < MaxResets
    /\ resets' = resets + 1
    /\ last_alert_times' = << >>
    /\ fresh' = Keys
    /\ UNCHANGED <<now, alerts, snapshots, log_lines, error_lines, faults, calls,
                   camera_id, tpc, alert_type, alert_key, current_time,
                   time_since_last_alert, snapshot_saved, db_result, result,
                   lastTrue, after_reset>>
    /\ UNCHANGED <<frameVars, lifeVars, inputVars, startVars, appVars>>

\* ------------------------------------------------------------------------
\* Detections
\* ------------------------------------------------------------------------

\* scores are kept as integers in units of 1/Scale point; confidences are
\* kept in percent
Scale == 2 * 1000

\* h, w = frame_shape[:2]
frame_h == frame_shape[1]
frame_w == frame_shape[2]

\* number of pose keypoints of a person (COCO)
NumKeypoints == 17

Min(a, b) == IF a <= b THEN a ELSE b
Max(a, b) == IF a >= b THEN a ELSE b

RECURSIVE SumSeq(_)
SumSeq(s) == IF s = << >> THEN 0 ELSE Head(s) + SumSeq(Tail(s))

\* keypoints[k] is <<x, y, confidence>>; in Python the nose is keypoints[0],
\* the wrists keypoints[9] and keypoints[10]
NoPose == [present |-> FALSE, points |-> << >>]

Pose(nose, left_wrist, right_wrist) ==
    [present |-> TRUE,
     points |-> [k \in 1..NumKeypoints |->
                    IF k = 1 THEN nose
                    ELSE IF k = 10 THEN left_wrist
                    ELSE IF k = 11 THEN right_wrist
                    ELSE <<0, 0, 0>>]]

Knife == [type |-> "knife", confidence |-> 100]

Person(bbox, gender, age, confidence, distress, weapons, keypoints) ==
    [bbox |-> bbox, gender |-> gender, age |-> age, confidence |-> confidence,
     distress |-> distress, has_harmful_object |-> weapons # << >>,
     harmful_objects_nearby |-> weapons, keypoints |-> keypoints]

\* a woman in the middle of the frame
AWoman == Person(<<280, 180, 360, 300>>, "woman", 35, 50, FALSE, << >>, NoPose)

\* a young woman 120 px to her left, both wrists raised above her head
AWomanInDistress ==
    Person(<<160, 180, 240, 300>>, "woman", 25, 80, TRUE, << >>,
           Pose(<<200, 200, 90>>, <<180, 140, 90>>, <<220, 140, 90>>))

\* a man 80 px to the right of the first woman
AMan == Person(<<360, 180, 440, 300>>, "man", 40, 90, FALSE, << >>, NoPose)

\* a man 100 px below the first woman, holding a knife
AnArmedMan == Person(<<280, 280, 360, 400>>, "man", 30, 60, FALSE, <<Knife>>, NoPose)

\* a child in the top left corner
AChild == Person(<<20, 20, 100, 100>>, "unknown", 8, 50, FALSE, << >>, NoPose)

Persons == {AWoman, AWomanInDistress, AMan, AnArmedMan, AChild}

\* number of persons in one frame
MaxPersons == 5

DetectionLists == UNION {[1..n -> Persons] : n \in 0..MaxPersons}

\* times of day, in minutes after midnight: noon, 06:30 and 23:00
TimesOfDay == {12 * 60, 6 * 60 + 30, 23 * 60}

\* the detection dicts of the standalone pipeline: 'box' is [x, y, w, h],
\* 'gender' is capitalised, 'age_range' is a string "lo-hi"
Capitalised(gender) == IF gender = "woman" THEN "Woman"
                       ELSE IF gender = "man" THEN "Man" ELSE "Unknown"

Lower(gender) == IF gender = "Woman" THEN "woman"
                 ELSE IF gender = "Man" THEN "man" ELSE "unknown"

LegacyDetection(p) ==
    [box |-> <<p.bbox[1], p.bbox[2], p.bbox[3] - p.bbox[1], p.bbox[4] - p.bbox[2]>>,
     gender |-> Capitalised(p.gender),
     age_range |-> <<p.age, p.age + 5>>,
     confidence |-> p.confidence,
     distress |-> p.distress]

LegacyDetections(dets) == [i \in 1..Len(dets) |-> LegacyDetection(dets[i])]

\* squared distance of two points
Dist2(a, b) == (a[1] - b[1]) * (a[1] - b[1]) + (a[2] - b[2]) * (a[2] - b[2])

\* ------------------------------------------------------------------------
\* src/src/core/camera_processor.py: _calculate_risk_score
\* ------------------------------------------------------------------------

\* lines 225-234: the weight of a weapon type
WeaponWeight(type) ==
    IF type = "knife" THEN 40
    ELSE IF type = "baseball bat" THEN 30
    ELSE IF type = "scissors" THEN 20
    ELSE IF type = "fork" THEN 15
    ELSE 25

\* lines 216-243: what one detection adds
DetectionRisk(d) ==
    (IF d.has_harmful_object
     THEN SumSeq([k \in 1..Len(d.harmful_objects_nearby) |->
                    WeaponWeight(d.harmful_objects_nearby[k].type)
                    * d.harmful_objects_nearby[k].confidence * (Scale \div 100)])
     ELSE 0)
    + (IF d.gender = "woman"
       THEN 5 * Scale + (IF 16 <= d.age /\ d.age <= 30 THEN 5 * Scale ELSE 0)
       ELSE 0)

\* lines 245-255: group dynamics
GroupRisk(total_people, women_count, men_count) ==
    IF total_people > 1
    THEN IF women_count = 1 /\ men_count >= 2 THEN 15 * Scale
         ELSE IF women_count > 0 /\ men_count > 0 /\ men_count >= 3 * women_count
              THEN 10 * Scale
              ELSE 0
    ELSE 0

\* lines 257-264: night factor and crowding, without the final clamp
UnclampedRisk(dets, hour) ==
    LET total_people == Len(dets)
        women_count == Len(SelectSeq(dets, LAMBDA d : d.gender = "woman"))
        men_count == Len(SelectSeq(dets, LAMBDA d : d.gender = "man"))
        summed == 10 * Scale
                  + SumSeq([i \in 1..Len(dets) |-> DetectionRisk(dets[i])])
                  + GroupRisk(total_people, women_count, men_count)
        timed == IF hour >= 22 \/ hour <= 6 THEN (summed * 12) \div 10 ELSE summed
    IN  timed + (IF total_people > 5 THEN (total_people - 5) * 2 * Scale ELSE 0)

\* a scoring that adds the base risk before looking at the list
CalculateRiskScoreBaseFirst(dets, hour) ==
    Max(0, Min(100 * Scale, UnclampedRisk(dets, hour)))

\* the whole function: 0.0 for an empty list, else the clamped sum
CalculateRiskScore(dets, hour) ==
    IF dets = << >>
    THEN 0
    ELSE Max(0, Min(100 * Scale, UnclampedRisk(dets, hour)))

\* ------------------------------------------------------------------------
\* src/src/core/ai_analyzer.py: analyze_women_safety_scenarios
\* ------------------------------------------------------------------------
Center(bbox) == <<(bbox[1] + bbox[3]) \div 2, (bbox[2] + bbox[4]) \div 2>>

Inside(pt, bbox) ==
    /\ bbox[1] <= pt[1] /\ pt[1] <= bbox[3]
    /\ bbox[2] <= pt[2] /\ pt[2] <= bbox[4]

\* 'isolation_risk' and 'threat_level' are fractions; they are kept as
\* numerators over IsolationDenom and ThreatDenom
IsolationDenom == 2 * Min(frame_w, frame_h)
ThreatDenom == 5

\* lines 771-795: directions with no person on the path to the frame edge
EscapeRoutes(woman, all_people) ==
    LET c == Center(woman.bbox)
        steps == 10
        PathClear(dir) ==
            \A step \in 1..(steps - 1) :
               \A i \in 1..Len(all_people) :
                  all_people[i] # woman =>
                     ~Inside(<<c[1] + dir[1] * (frame_w \div steps) * step,
                               c[2] + dir[2] * (frame_h \div steps) * step>>,
                             all_people[i].bbox)
    IN  Cardinality({dir \in {<<0, 0 - 1>>, <<1, 0>>, <<0, 1>>, <<0 - 1, 0>>} :
                        PathClear(dir)})

\* an analysis in which an armed man does not raise the threat level
AnalyzeIndividualWomanSafetyUnraised(woman, all_people) ==
    LET woman_center == Center(woman.bbox)
        nearby_people == SelectSeq(all_people,
                            LAMBDA p : /\ p # woman
                                       /\ Dist2(woman_center, Center(p.bbox)) < 200 * 200)
        nearby_men == SelectSeq(nearby_people, LAMBDA p : p.gender = "man")
        is_alone == Len(nearby_people) = 0
        is_surrounded == Len(nearby_men) >= 3
        armed_nearby == \E k \in 1..Len(nearby_men) : nearby_men[k].has_harmful_object
        edge_proximity == Min(Min(woman_center[1], woman_center[2]),
                              Min(frame_w - woman_center[1], frame_h - woman_center[2]))
    IN  [woman_id |-> woman_center,
         position |-> woman_center,
         is_alone |-> is_alone,
         is_surrounded |-> is_surrounded,
         nearby_men |-> nearby_men,
         isolation_risk |-> IF is_alone
                            THEN Max(IsolationDenom \div 2,
                                     IsolationDenom - 4 * edge_proximity)
                            ELSE 0,
         threat_level |-> IF is_surrounded THEN Min(ThreatDenom, Len(nearby_men))
                          ELSE 0,
         immediate_danger |-> woman.has_harmful_object \/ armed_nearby,
         escape_routes |-> EscapeRoutes(woman, all_people)]

\* an analysis whose isolation risk is the edge factor, without the floor
AnalyzeIndividualWomanSafetyUnfloored(woman, all_people) ==
    LET woman_center == Center(woman.bbox)
        nearby_people == SelectSeq(all_people,
                            LAMBDA p : /\ p # woman
                                       /\ Dist2(woman_center, Center(p.bbox)) < 200 * 200)
        nearby_men == SelectSeq(nearby_people, LAMBDA p : p.gender = "man")
        is_alone == Len(nearby_people) = 0
        is_surrounded == Len(nearby_men) >= 3
        armed_nearby == \E k \in 1..Len(nearby_men) : nearby_men[k].has_harmful_object
        edge_proximity == Min(Min(woman_center[1], woman_center[2]),
                              Min(frame_w - woman_center[1], frame_h - woman_center[2]))
    IN  [woman_id |-> woman_center,
         position |-> woman_center,
         is_alone |-> is_alone,
         is_surrounded |-> is_surrounded,
         nearby_men |-> nearby_men,
         isolation_risk |-> IF is_alone
                            THEN IsolationDenom - 4 * edge_proximity
                            ELSE 0,
         threat_level |-> IF armed_nearby THEN ThreatDenom
                          ELSE IF is_surrounded THEN Min(ThreatDenom, Len(nearby_men))
                          ELSE 0,
         immediate_danger |-> woman.has_harmful_object \/ armed_nearby,
         escape_routes |-> EscapeRoutes(woman, all_people)]

\* _analyze_individual_woman_safety
AnalyzeIndividualWomanSafety(woman, all_people) ==
    LET woman_center == Center(woman.bbox)
        nearby_people == SelectSeq(all_people,
                            LAMBDA p : /\ p # woman
                                       /\ Dist2(woman_center, Center(p.bbox)) < 200 * 200)
        nearby_men == SelectSeq(nearby_people, LAMBDA p : p.gender = "man")
        is_alone == Len(nearby_people) = 0
        is_surrounded == Len(nearby_men) >= 3
        armed_nearby == \E k \in 1..Len(nearby_men) : nearby_men[k].has_harmful_object
        edge_proximity == Min(Min(woman_center[1], woman_center[2]),
                              Min(frame_w - woman_center[1], frame_h - woman_center[2]))
    IN  [woman_id |-> woman_center,
         position |-> woman_center,
         is_alone |-> is_alone,
         is_surrounded |-> is_surrounded,
         nearby_men |-> nearby_men,
         isolation_risk |-> IF is_alone
                            THEN Max(IsolationDenom \div 2,
                                     IsolationDenom - 4 * edge_proximity)
                            ELSE 0,
         threat_level |-> IF armed_nearby THEN ThreatDenom
                          ELSE IF is_surrounded THEN Min(ThreatDenom, Len(nearby_men))
                          ELSE 0,
         immediate_danger |-> woman.has_harmful_object \/ armed_nearby,
         escape_routes |-> EscapeRoutes(woman, all_people)]

\* a detector for which one indicator is enough
DetectDistressSignalsAnyIndicator(woman) ==
    LET kp == woman.keypoints.points
        n == IF woman.keypoints.present THEN Len(kp) ELSE 0
        have_wrists == n > 10
        arms_raised == /\ n >= 10
                       /\ have_wrists
                       /\ kp[10][2] < kp[1][2] - 50 /\ kp[10][3] > 50
                       /\ kp[11][2] < kp[1][2] - 50 /\ kp[11][3] > 50
        defensive_posture == /\ n >= 5
                             /\ n > 9
                             /\ Dist2(kp[1], kp[10]) < 100 * 100
                             /\ kp[10][3] > 50
        confidence == (IF arms_raised THEN 4 ELSE 0)
                      + (IF defensive_posture THEN 3 ELSE 0)
    IN  [has_distress |-> confidence > 0,
         confidence |-> confidence,
         indicators |-> (IF arms_raised THEN <<"arms_raised">> ELSE << >>)
                        \o (IF defensive_posture THEN <<"defensive_posture">>
                            ELSE << >>)]

\* _detect_distress_signals; 'confidence' is kept in tenths
DetectDistressSignals(woman) ==
    LET kp == woman.keypoints.points
        n == IF woman.keypoints.present THEN Len(kp) ELSE 0
        have_wrists == n > 10
        arms_raised == /\ n >= 10
                       /\ have_wrists
                       /\ kp[10][2] < kp[1][2] - 50 /\ kp[10][3] > 50
                       /\ kp[11][2] < kp[1][2] - 50 /\ kp[11][3] > 50
        defensive_posture == /\ n >= 5
                             /\ n > 9
                             /\ Dist2(kp[1], kp[10]) < 100 * 100
                             /\ kp[10][3] > 50
        confidence == (IF arms_raised THEN 4 ELSE 0)
                      + (IF defensive_posture THEN 3 ELSE 0)
    IN  [has_distress |-> confidence > 4,
         confidence |-> confidence,
         indicators |-> (IF arms_raised THEN <<"arms_raised">> ELSE << >>)
                        \o (IF defensive_posture THEN <<"defensive_posture">>
                            ELSE << >>)]

\* a rating that looks at the distress signals before the surrounded women
CalculateOverallThreatLevelDistressFirst(lists) ==
    IF lists.women_in_danger # << >> THEN "CRITICAL"
    ELSE IF lists.distress_signals # << >> THEN "MODERATE"
    ELSE IF lists.surrounded_women # << >> THEN "HIGH"
    ELSE IF lists.lone_women # << >> THEN "LOW"
    ELSE "SAFE"

\* _calculate_overall_threat_level
CalculateOverallThreatLevel(lists) ==
    IF lists.women_in_danger # << >> THEN "CRITICAL"
    ELSE IF lists.surrounded_women # << >> THEN "HIGH"
    ELSE IF lists.distress_signals # << >> THEN "MODERATE"
    ELSE IF lists.lone_women # << >> THEN "LOW"
    ELSE "SAFE"

\* the result for a frame without women, and of a failed analysis
SafeAnalysis ==
    [lone_women |-> << >>, surrounded_women |-> << >>, women_in_danger |-> << >>,
     risk_zones |-> << >>, distress_signals |-> << >>,
     overall_threat_level |-> "SAFE"]

AnalyzeWomenSafetyScenarios(dets) ==
    LET women == SelectSeq(dets, LAMBDA d : d.gender = "woman")
        analysis == [k \in 1..Len(women) |->
                        AnalyzeIndividualWomanSafety(women[k], dets)]
        distress == [k \in 1..Len(women) |-> DetectDistressSignals(women[k])]
        found == [lone_women |->
                     SelectSeq(analysis,
                        LAMBDA a : a.is_alone /\ 10 * a.isolation_risk > 7 * IsolationDenom),
                  surrounded_women |->
                     SelectSeq(analysis,
                        LAMBDA a : a.is_surrounded /\ 10 * a.threat_level > 6 * ThreatDenom),
                  women_in_danger |->
                     SelectSeq(analysis, LAMBDA a : a.immediate_danger),
                  risk_zones |-> << >>,
                  distress_signals |->
                     SelectSeq(distress, LAMBDA s : s.has_distress),
                  overall_threat_level |-> "SAFE"]
    IN  [found EXCEPT !.overall_threat_level = CalculateOverallThreatLevel(found)]

\* ------------------------------------------------------------------------
\* src/surveillance_system/camera_processor.py: the standalone pipeline
\* ------------------------------------------------------------------------

\* DETECTION_SETTINGS of config.py
group_proximity_threshold == 200
lone_female_score == 10
adult_male_near_female_score == 10
child_score_modifier == 0 - 15
elderly_score_modifier == 0 - 10
other_female_score_modifier == 0 - 5
child_age_threshold == 15
elderly_age_threshold == 60
threat_alert_threshold == 25

\* TIME_SETTINGS of config.py, in minutes after midnight
night_start == 22 * 60
night_end == 5 * 60

\* alert_system.is_night_time
IsNightTime(t) ==
    IF night_start > night_end
    THEN t >= night_start \/ t <= night_end
    ELSE night_start <= t /\ t <= night_end

\* centre of a 'box' [x, y, w, h]
BoxCenter(box) == <<box[1] + box[3] \div 2, box[2] + box[4] \div 2>>

\* _count_surrounding_males: males within 150 px of the female
CountSurroundingMales(female_person, males) ==
    Len(SelectSeq(males,
                  LAMBDA m : Dist2(BoxCenter(female_person.box), BoxCenter(m.box))
                                <= 150 * 150))

\* _is_near_females
IsNearFemales(male_person, females) ==
    \E k \in 1..Len(females) :
       Dist2(BoxCenter(male_person.box), BoxCenter(females[k].box))
          <= group_proximity_threshold * group_proximity_threshold

\* _get_age_from_range: the lower end of the range, 25 when it is unknown
GetAgeFromRange(age_range) == IF age_range = << >> THEN 25 ELSE age_range[1]

\* int(x * 1.5)
IntTimesOneAndHalf(x) == IF x >= 0 THEN (3 * x) \div 2 ELSE 0 - ((3 * (0 - x)) \div 2)

\* the categories of _analyze_threat_level, lines 284-291
IsChild(p) == GetAgeFromRange(p.age_range) < child_age_threshold
IsElderly(p) == ~IsChild(p) /\ GetAgeFromRange(p.age_range) > elderly_age_threshold
IsAdultFemale(p) == ~IsChild(p) /\ ~IsElderly(p) /\ p.gender = "Woman"
IsAdultMale(p) == ~IsChild(p) /\ ~IsElderly(p) /\ p.gender = "Man"

\* the females flagged as surrounded, lines 310-328
SurroundedFemales(females, males) ==
    SelectSeq(females, LAMBDA f : CountSurroundingMales(f, males) >= 2)

\* _analyze_threat_level: the score it returns when nothing is raised
AnalyzeThreatLevel(ldets, t) ==
    IF ldets = << >> THEN 0
    ELSE
    LET females == SelectSeq(ldets, IsAdultFemale)
        males == SelectSeq(ldets, IsAdultMale)
        children == SelectSeq(ldets, IsChild)
        elderly == SelectSeq(ldets, IsElderly)
        distressed_people == SelectSeq(ldets, LAMBDA p : p.distress)
        lone == IF Len(ldets) = 1 /\ ldets[1].gender = "Woman"
                THEN lone_female_score ELSE 0
        surrounded_bonus ==
            SumSeq([k \in 1..Len(females) |->
                      IF CountSurroundingMales(females[k], males) >= 2
                      THEN CountSurroundingMales(females[k], males) * 15
                      ELSE 0])
        near == Len(SelectSeq(males, LAMBDA m : IsNearFemales(m, females)))
                   * adult_male_near_female_score
        others == IF Len(females) > 1
                  THEN (Len(females) - 1) * other_female_score_modifier
                  ELSE 0
        summed == lone
                  + Len(distressed_people) * 30
                  + (IF Len(females) > 0 THEN surrounded_bonus + near + others ELSE 0)
                  + Len(children) * child_score_modifier
                  + Len(elderly) * elderly_score_modifier
    IN  IF IsNightTime(t) THEN IntTimesOneAndHalf(summed) ELSE summed

\* the alert types _analyze_threat_level passes to trigger_alert, in the
\* order of the calls
ThreatAlerts(ldets, t) ==
    IF ldets = << >> THEN << >>
    ELSE
    LET females == SelectSeq(ldets, IsAdultFemale)
        males == SelectSeq(ldets, IsAdultMale)
        distressed_people == SelectSeq(ldets, LAMBDA p : p.distress)
    IN  [k \in 1..Len(distressed_people) |-> "distress_signal"]
        \o [k \in 1..Len(SurroundedFemales(females, males)) |-> "surrounded"]
        \o (IF AnalyzeThreatLevel(ldets, t) >= threat_alert_threshold
            THEN <<"high_threat_detected">> ELSE << >>)

\* _calculate_risk_score, lines 698-733: the risk of detection i; the list
\* males holds the men that come before it
IsFemaleGender(p) == Lower(p.gender) \in {"woman", "female"}
IsMaleGender(p) == ~IsFemaleGender(p) /\ Lower(p.gender) \in {"man", "male"}

PersonRisk(ldets, i) ==
    LET det == ldets[i]
        base == IF IsFemaleGender(det) THEN 15
                ELSE IF IsMaleGender(det) THEN 7 ELSE 10
        weighted == base * (250 - det.confidence) * (Scale \div 200)
        males == SelectSeq(SubSeq(ldets, 1, i), IsMaleGender)
    IN  weighted
        + (IF det.distress THEN 50 * Scale ELSE 0)
        + (IF IsFemaleGender(det) /\ CountSurroundingMales(det, males) >= 2
           THEN 40 * Scale ELSE 0)

\* lines 725-731: the value of det['surrounded'] after the loop, "none" for
\* a detection that is not female; an empty list leaves before the loop
SurroundedMarks(ldets) ==
    [i \in 1..Len(ldets) |->
        IF ~IsFemaleGender(ldets[i]) THEN "none"
        ELSE IF CountSurroundingMales(ldets[i],
                    SelectSeq(SubSeq(ldets, 1, i), IsMaleGender)) >= 2
             THEN "true" ELSE "false"]

\* lines 735-792, without the final min
UncappedRisk(ldets, t) ==
    LET female_count == Len(SelectSeq(ldets, IsFemaleGender))
        male_count == Len(SelectSeq(ldets, IsMaleGender))
        unknown_count == Len(ldets) - female_count - male_count
        ratio_risk == IF female_count > 0
                      THEN IF male_count > 4 * female_count THEN 25 * Scale
                           ELSE IF male_count > 2 * female_count THEN 15 * Scale
                           ELSE 0
                      ELSE 0
        summed == SumSeq([i \in 1..Len(ldets) |-> PersonRisk(ldets, i)])
                  + ratio_risk
                  + (IF female_count = 1 /\ male_count > 0 THEN 20 * Scale ELSE 0)
                  + (IF Len(ldets) >= 5 THEN 10 * Scale ELSE 0)
                  + unknown_count * 5 * Scale
    IN  IF IsNightTime(t) THEN (summed * 3) \div 2 ELSE summed

\* _calculate_risk_score of the standalone pipeline
CalculateRiskScoreLegacy(ldets, t) ==
    IF ldets = << >> THEN 0 ELSE Min(UncappedRisk(ldets, t), 200 * Scale)

\* ------------------------------------------------------------------------
\* Scoring one frame
\* ------------------------------------------------------------------------

\* core process_frame_from_numpy, lines 107-123: the safety analysis made
\* by analyze_frame and the risk score of the detections
ScoreFrameCore ==
    /\ spc = "input"
    /\ safety_alerts' = AnalyzeWomenSafetyScenarios(detections)
    /\ risk_score' = CalculateRiskScore(detections, clock \div 60)
    /\ spc' = "core"
    /\ UNCHANGED <<detections, clock, final_risk, threat_score, pending>>
    /\ UNCHANGED <<alertVars, lifeVars>>
    /\ UNCHANGED <<inputVars, startVars, appVars, resetVars>>

\* standalone get_frame, line 827: the risk score of the detections
ScoreFrameLegacy ==
    /\ spc = "input"
    /\ final_risk' = CalculateRiskScoreLegacy(LegacyDetections(detections), clock)
    /\ surrounded_marks' = SurroundedMarks(LegacyDetections(detections))
    /\ spc' = "legacy"
    /\ UNCHANGED <<detections, clock, risk_score, threat_score, safety_alerts, pending>>
    /\ UNCHANGED <<alertVars, lifeVars>>
    /\ UNCHANGED <<frame_shape, person_results, object_results,
                   harmful_objects, runs, women_analysed,
                   first_run>>
    /\ UNCHANGED <<startVars, appVars, resetVars>>

\* standalone _analyze_threat_level: the threat score and the alerts asked for
ScoreFrameThreat ==
    /\ spc = "input"
    /\ threat_score' = AnalyzeThreatLevel(LegacyDetections(detections), clock)
    /\ pending' = ThreatAlerts(LegacyDetections(detections), clock)
    /\ spc' = "threat"
    /\ UNCHANGED <<detections, clock, risk_score, final_risk, safety_alerts>>
    /\ UNCHANGED <<alertVars, lifeVars>>
    /\ UNCHANGED <<inputVars, startVars, appVars, resetVars>>

\* ------------------------------------------------------------------------
\* src/src/core/ai_analyzer.py: analyze_frame, from the results of the two
\* detectors to the detections and the safety analysis
\* ------------------------------------------------------------------------

\* number of times one frame is analysed
MaxRuns == 2

\* a person found by the pose detector: box, confidence and keypoints, and
\* the gender and age _analyze_face_attributes will find
PersonResult(bbox, gender, age, confidence, keypoints) ==
    [bbox |-> bbox, gender |-> gender, age |-> age, confidence |-> confidence,
     keypoints |-> keypoints]

\* an entry of harmful_objects, lines 176-207
HarmfulObject(class, confidence, center) ==
    [class |-> class, confidence |-> confidence, center |-> center]

\* lines 144-156 and 226-238: the detection dict of a person
Detection(r) == Person(r.bbox, r.gender, r.age, r.confidence, FALSE, << >>, r.keypoints)

\* detection dicts left over from the analysis before, where there was one
PersonDetectionsKept(results) ==
    IF runs = 0 THEN [i \in 1..Len(results) |-> Detection(results[i])]
    ELSE detections

\* lines 122-157: person_detections is built anew from the results
PersonDetections(results) == [i \in 1..Len(results) |-> Detection(results[i])]

\* an association that leaves out the distance of exactly 100
NearbyStrict(person_center, obj_center) == Dist2(person_center, obj_center) < 100 * 100

\* line 267, with the squared distance
Nearby(person_center, obj_center) == Dist2(person_center, obj_center) <= 100 * 100

\* an association by the distance alone
IsAssociatedByDistance(person, obj) == Nearby(Center(person.bbox), obj.center)

\* lines 255-269: within_bbox or nearby
IsAssociated(person, obj) ==
    \/ Inside(obj.center, person.bbox)
    \/ Nearby(Center(person.bbox), obj.center)

\* _associate_harmful_objects: every object that is associated with a person
\* is appended to the person's list; 'distance' is kept squared
AssociateHarmfulObjects(person_detections, objs) ==
    [i \in 1..Len(person_detections) |->
        LET person == person_detections[i]
            found == SelectSeq(objs, LAMBDA obj : IsAssociated(person, obj))
        IN  [person EXCEPT
                !.has_harmful_object = @ \/ found # << >>,
                !.harmful_objects_nearby =
                    @ \o [k \in 1..Len(found) |->
                            [type |-> found[k].class,
                             confidence |-> found[k].confidence,
                             distance |-> Dist2(Center(person.bbox), found[k].center)]]]]

\* 'area' of a detection, line 153
Area(bbox) == (bbox[3] - bbox[1]) * (bbox[4] - bbox[2])

\* line 224: person_detections.sort(key=area, reverse=True), a stable sort
RECURSIVE SortByArea(_)
SortByArea(dets) ==
    IF dets = << >> THEN << >>
    ELSE LET first == Head(dets)
             rest == SortByArea(Tail(dets))
         IN  SelectSeq(rest, LAMBDA d : Area(d.bbox) > Area(first.bbox))
             \o <<first>>
             \o SelectSeq(rest, LAMBDA d : Area(d.bbox) <= Area(first.bbox))

\* analyze_women_safety_scenarios, lines 682-698: what is computed for each
\* woman, in the order of the list
WomenAnalysed(dets) ==
    LET women == SelectSeq(dets, LAMBDA d : d.gender = "woman")
    IN  [k \in 1..Len(women) |->
            [woman |-> women[k],
             woman_analysis |-> AnalyzeIndividualWomanSafety(women[k], dets),
             distress |-> DetectDistressSignals(women[k])]]

\* analyze_frame, lines 122-244: the person detections after association
\* and sorting
AnalyzeFrame(results, objs) ==
    SortByArea(AssociateHarmfulObjects(PersonDetections(results), objs))

\* process_frame_from_numpy, lines 101-131, on the frame whose detector
\* results are person_results and harmful_objects
ProcessFrameFromNumpy ==
    /\ spc \in {"frame", "core"}
    /\ runs < MaxRuns
    /\ runs' = runs + 1
    /\ IF running
       THEN LET dets == AnalyzeFrame(person_results, harmful_objects)
                safety == AnalyzeWomenSafetyScenarios(dets)
                score == CalculateRiskScore(dets, clock \div 60)
            IN  /\ detections' = dets
                /\ women_analysed' = WomenAnalysed(dets)
                /\ safety_alerts' = safety
                /\ risk_score' = score
                /\ current_risk_score' = score
                /\ first_run' = IF runs = 0
                                THEN [done |-> TRUE, score |-> score, safety |-> safety]
                                ELSE first_run
       ELSE /\ risk_score' = 0
            /\ UNCHANGED <<detections, women_analysed, safety_alerts,
                           current_risk_score, first_run>>
    /\ spc' = "core"
    /\ UNCHANGED <<clock, final_risk, threat_score, pending>>
    /\ UNCHANGED <<frame_shape, person_results, object_results,
                   harmful_objects, surrounded_marks>>
    /\ UNCHANGED <<startVars, appVars, resetVars>>
    /\ UNCHANGED <<variant, running, stop_processing, cap_open, file_exists, cpc,
                   wpc, frames, fault, fault_seen, stop_called>>
    /\ UNCHANGED alertVars

\* a box of the object detector: class, confidence in percent, and the
\* corners after map(int, box.xyxy[0])
ObjectBox(class, confidence, x1, y1, x2, y2) ==
    [class |-> class, confidence |-> confidence, bbox |-> <<x1, y1, x2, y2>>]

\* line 46
HARMFUL_OBJECTS == {"knife", "baseball bat", "scissors", "fork"}

\* line 170: bbox_area = (x2 - x1) * (y2 - y1)
BboxArea(bbox) == (bbox[3] - bbox[1]) * (bbox[4] - bbox[2])

\* lines 462-467: min_area.get(class_name, 600)
MinArea(class_name) ==
    IF class_name = "knife" THEN 800
    ELSE IF class_name = "baseball bat" THEN 1200
    ELSE IF class_name = "scissors" THEN 600
    ELSE IF class_name = "fork" THEN 400
    ELSE 600

\* lines 487-494: valid_ratios.get(class_name, (0.2, 6.0)), in tenths
ValidRatios(class_name) ==
    IF class_name = "knife" THEN <<2, 60>>
    ELSE IF class_name = "baseball bat" THEN <<1, 80>>
    ELSE IF class_name = "scissors" THEN <<4, 30>>
    ELSE IF class_name = "fork" THEN <<3, 40>>
    ELSE <<2, 60>>

\* min_ratio <= width / height <= max_ratio, for a positive height
RatioWithin(width, height, ratios) ==
    /\ ratios[1] * height <= 10 * width
    /\ 10 * width <= ratios[2] * height

\* a validation that does not look at the sign of the width and the height
ValidateDetectionByArea(class_name, bbox) ==
    /\ BboxArea(bbox) >= MinArea(class_name)
    /\ 10 * BboxArea(bbox) <= 4 * frame_w * frame_h
    /\ bbox[4] - bbox[2] # 0
    /\ LET width == bbox[3] - bbox[1]
           height == bbox[4] - bbox[2]
       IN  IF height > 0 THEN RatioWithin(width, height, ValidRatios(class_name))
           ELSE RatioWithin(0 - width, 0 - height, ValidRatios(class_name))

\* _validate_detection, lines 457-497
ValidateDetection(class_name, bbox) ==
    LET width == bbox[3] - bbox[1]
        height == bbox[4] - bbox[2]
    IN  /\ BboxArea(bbox) >= MinArea(class_name)
        /\ 10 * BboxArea(bbox) <= 4 * frame_w * frame_h
        /\ width > 0 /\ height > 0
        /\ RatioWithin(width, height, ValidRatios(class_name))

\* _validate_knife_detection, lines 499-524
ValidateKnifeDetection(bbox) ==
    LET width == bbox[3] - bbox[1]
        height == bbox[4] - bbox[2]
    IN  /\ BboxArea(bbox) >= 200
        /\ 10 * BboxArea(bbox) <= 5 * frame_w * frame_h
        /\ width > 0 /\ height > 0
        /\ RatioWithin(width, height, <<1, 100>>)

\* lines 172-207: the tests a box passes to be appended to harmful_objects
IsHarmful(box) ==
    IF box.class = "knife" /\ box.confidence > 8
    THEN ValidateKnifeDetection(box.bbox)
    ELSE IF box.class \in HARMFUL_OBJECTS /\ box.confidence > 20
    THEN ValidateDetection(box.class, box.bbox)
    ELSE IF box.class \in {"scissors", "fork"} /\ box.confidence > 18
    THEN ValidateDetection(box.class, box.bbox)
    ELSE FALSE

\* lines 176-182: the entry appended for a box
HarmfulObjectOf(box) ==
    [bbox |-> box.bbox, confidence |-> box.confidence, class |-> box.class,
     center |-> Center(box.bbox), area |-> BboxArea(box.bbox)]

\* line 214: harmful_objects.sort(key=confidence, reverse=True), a stable
\* sort
RECURSIVE SortByConfidence(_)
SortByConfidence(objs) ==
    IF objs = << >> THEN << >>
    ELSE LET first == Head(objs)
             rest == SortByConfidence(Tail(objs))
         IN  SelectSeq(rest, LAMBDA o : o.confidence > first.confidence)
             \o <<first>>
             \o SelectSeq(rest, LAMBDA o : o.confidence <= first.confidence)

\* lines 159-214: harmful_objects of the boxes of the object detector
HarmfulObjects(boxes) ==
    LET kept == SelectSeq(boxes, IsHarmful)
    IN  SortByConfidence([k \in 1..Len(kept) |-> HarmfulObjectOf(kept[k])])

\* process_frame_from_numpy, lines 101-131, on the frame whose detector
\* results are person_results and object_results
ProcessFrameFromNumpyObjects ==
    /\ spc \in {"frame", "core"}
    /\ runs < MaxRuns
    /\ runs' = runs + 1
    /\ IF running
       THEN LET objs == HarmfulObjects(object_results)
                dets == AnalyzeFrame(person_results, objs)
                safety == AnalyzeWomenSafetyScenarios(dets)
                score == CalculateRiskScore(dets, clock \div 60)
            IN  /\ harmful_objects' = objs
                /\ detections' = dets
                /\ women_analysed' = WomenAnalysed(dets)
                /\ safety_alerts' = safety
                /\ risk_score' = score
                /\ current_risk_score' = score
                /\ first_run' = IF runs = 0
                                THEN [done |-> TRUE, score |-> score, safety |-> safety]
                                ELSE first_run
       ELSE /\ risk_score' = 0
            /\ UNCHANGED <<harmful_objects, detections, women_analysed, safety_alerts,
                           current_risk_score, first_run>>
    /\ spc' = "core"
    /\ UNCHANGED <<clock, final_risk, threat_score, pending>>
    /\ UNCHANGED <<frame_shape, person_results, object_results, surrounded_marks>>
    /\ UNCHANGED <<startVars, appVars, resetVars>>
    /\ UNCHANGED <<variant, running, stop_processing, cap_open, file_exists, cpc,
                   wpc, frames, fault, fault_seen, stop_called>>
    /\ UNCHANGED alertVars

\* ------------------------------------------------------------------------
\* The camera worker of the standalone pipeline
\* (src/surveillance_system/camera_processor.py)
\* ------------------------------------------------------------------------

\* the thread that runs the processor
TheWorker == "w1"

\* frames analyze_frame can return
WorkerFrames == {<< >>, <<AWomanInDistress>>, <<AMan, AMan, AWoman>>}

\* start(), lines 79-86
LStart ==
    /\ variant = "legacy"
    /\ cpc = "created"
    /\ ~running
    /\ cpc' = "started"
    /\ wpc' = "entry"
    /\ UNCHANGED <<variant, running, stop_processing, cap_open, file_exists,
                   frames, fault, fault_seen, stop_called, current_risk_score>>
    /\ UNCHANGED <<alertVars, frameVars>>
    /\ UNCHANGED <<inputVars, startVars, appVars, resetVars>>

\* run(), line 93: self.running = True
LRunEntry ==
    /\ wpc = "entry"
    /\ running' = TRUE
    /\ wpc' = "precheck"
    /\ UNCHANGED <<variant, stop_processing, cap_open, file_exists, cpc,
                   frames, fault, fault_seen, stop_called, current_risk_score>>
    /\ UNCHANGED <<alertVars, frameVars>>
    /\ UNCHANGED <<inputVars, startVars, appVars, resetVars>>

\* run(), lines 98-105: a missing video file ends the worker
LPreCheck ==
    /\ wpc = "precheck"
    /\ IF file_exists
       THEN wpc' = "outer" /\ UNCHANGED running
       ELSE wpc' = "done" /\ running' = FALSE
    /\ UNCHANGED <<variant, stop_processing, cap_open, file_exists, cpc,
                   frames, fault, fault_seen, stop_called, current_risk_score>>
    /\ UNCHANGED <<alertVars, frameVars>>
    /\ UNCHANGED <<inputVars, startVars, appVars, resetVars>>

\* run(), line 107: while self.running
LOuter ==
    /\ wpc = "outer"
    /\ wpc' = IF running THEN "init" ELSE "done"
    /\ UNCHANGED <<variant, running, stop_processing, cap_open, file_exists, cpc,
                   frames, fault, fault_seen, stop_called, current_risk_score>>
    /\ UNCHANGED <<alertVars, frameVars>>
    /\ UNCHANGED <<inputVars, startVars, appVars, resetVars>>

\* run(), lines 109-113: _initialize_camera; when it fails the worker
\* sleeps and takes the loop again, through the finally clause
LInitCamera ==
    /\ wpc = "init"
    /\ \/ cap_open' = TRUE /\ wpc' = "inner"
       \/ cap_open' = FALSE /\ wpc' = "outer"
    /\ UNCHANGED <<variant, running, stop_processing, file_exists, cpc,
                   frames, fault, fault_seen, stop_called, current_risk_score>>
    /\ UNCHANGED <<alertVars, frameVars>>
    /\ UNCHANGED <<inputVars, startVars, appVars, resetVars>>

\* run(), line 118: while self.running and self.cap and self.cap.isOpened()
LInner ==
    /\ wpc = "inner"
    /\ wpc' = IF running /\ cap_open THEN "read" ELSE "finally"
    /\ UNCHANGED <<variant, running, stop_processing, cap_open, file_exists, cpc,
                   frames, fault, fault_seen, stop_called, current_risk_score>>
    /\ UNCHANGED <<alertVars, frameVars>>
    /\ UNCHANGED <<inputVars, startVars, appVars, resetVars>>

\* run(), lines 125-143: read a frame; a failed read leaves the inner
\* loop, an analyzer that is not ready skips the frame
LRead ==
    /\ wpc = "read"
    /\ \/ /\ cap_open
          /\ frames < MaxFrames
          /\ frames' = frames + 1
          /\ fault' = "none"
          /\ wpc' \in {"analyze", "inner"}
       \/ /\ wpc' = "finally"
          /\ UNCHANGED <<frames, fault>>
    /\ UNCHANGED <<variant, running, stop_processing, cap_open, file_exists, cpc,
                   fault_seen, stop_called, current_risk_score>>
    /\ UNCHANGED <<alertVars, frameVars>>
    /\ UNCHANGED <<inputVars, startVars, appVars, resetVars>>

\* a worker that dies of an exception of analyze_frame
LAnalyzeUnguarded ==
    /\ wpc = "analyze"
    /\ \/ /\ \E d \in WorkerFrames :
                /\ detections' = d
                /\ IF d = << >>
                   THEN threat_score' = 0 /\ wpc' = "display"
                   ELSE UNCHANGED threat_score /\ wpc' = "threat"
          /\ UNCHANGED <<faults, fault, fault_seen>>
       \/ /\ faults < MaxFaults
          /\ faults' = faults + 1
          /\ fault' = "analysis"
          /\ fault_seen' = TRUE
          /\ wpc' = "done"
          /\ UNCHANGED <<detections, threat_score>>
    /\ UNCHANGED <<variant, running, stop_processing, cap_open, file_exists, cpc,
                   frames, stop_called, current_risk_score>>
    /\ UNCHANGED <<now, last_alert_times, alerts, snapshots, log_lines, error_lines, alertLocals>>
    /\ UNCHANGED <<clock, spc, risk_score, final_risk, safety_alerts, pending>>
    /\ UNCHANGED <<inputVars, startVars, appVars, resetVars>>

\* run(), lines 145-154: analyze_frame; an exception it raises is caught
\* at line 166 and the finally clause is run; an empty list scores 0
LAnalyze ==
    /\ wpc = "analyze"
    /\ \/ /\ \E d \in WorkerFrames :
                /\ detections' = d
                /\ IF d = << >>
                   THEN threat_score' = 0 /\ wpc' = "display"
                   ELSE UNCHANGED threat_score /\ wpc' = "threat"
          /\ UNCHANGED <<faults, fault, fault_seen>>
       \/ /\ faults < MaxFaults
          /\ faults' = faults + 1
          /\ fault' = "analysis"
          /\ fault_seen' = TRUE
          /\ wpc' = "finally"
          /\ UNCHANGED <<detections, threat_score>>
    /\ UNCHANGED <<variant, running, stop_processing, cap_open, file_exists, cpc,
                   frames, stop_called, current_risk_score>>
    /\ UNCHANGED <<now, last_alert_times, alerts, snapshots, log_lines, error_lines, alertLocals>>
    /\ UNCHANGED <<clock, spc, risk_score, final_risk, safety_alerts, pending>>
    /\ UNCHANGED <<inputVars, startVars, appVars, resetVars>>

\* _analyze_threat_level, lines 242-375: the score and the alerts to
\* dispatch; an exception makes it return 0 (it can only be raised before
\* the first call of trigger_alert, lines 251-291)
LThreat ==
    /\ wpc = "threat"
    /\ \/ /\ threat_score' = AnalyzeThreatLevel(LegacyDetections(detections), clock)
          /\ pending' = ThreatAlerts(LegacyDetections(detections), clock)
          /\ wpc' = "dispatch"
          /\ UNCHANGED <<faults, fault, fault_seen>>
       \/ /\ faults < MaxFaults
          /\ faults' = faults + 1
          /\ fault' = "scoring"
          /\ fault_seen' = TRUE
          /\ threat_score' = 0
          /\ pending' = << >>
          /\ wpc' = "display"
    /\ UNCHANGED <<variant, running, stop_processing, cap_open, file_exists, cpc,
                   frames, stop_called, current_risk_score>>
    /\ UNCHANGED <<now, last_alert_times, alerts, snapshots, log_lines, error_lines, alertLocals>>
    /\ UNCHANGED <<detections, clock, spc, risk_score, final_risk, safety_alerts>>
    /\ UNCHANGED <<inputVars, startVars, appVars, resetVars>>

\* one whole call trigger_alert(frame, camera_id, type, ...) by the only
\* thread that is running
TriggerAlertCall(type) ==
    LET key == AlertKey(camera_id[TheWorker], type)
        file == [name |-> <<camera_id[TheWorker], type, now>>, mtime |-> now]
        row == [camera_id |-> camera_id[TheWorker], alert_type |-> type,
                timestamp |-> now]
    IN  IF InCooldown(last_alert_times, key, now)
        THEN UNCHANGED <<last_alert_times, alerts, snapshots, log_lines, error_lines, faults>>
        ELSE \E snapshot_ok, insert_ok, remove_ok \in BOOLEAN :
                LET failed == (IF snapshot_ok THEN 0 ELSE 1)
                              + (IF insert_ok THEN 0 ELSE 1)
                              + (IF remove_ok THEN 0 ELSE 1)
                    written == IF snapshot_ok THEN WriteFile(snapshots, file)
                               ELSE snapshots
                IN  /\ faults + failed <= MaxFaults
                    /\ faults' = faults + failed
                    /\ log_lines' = log_lines + 1
                    /\ alerts' = IF insert_ok THEN alerts (+) SetToBag({row})
                                 ELSE alerts
                    /\ error_lines' = IF insert_ok THEN error_lines
                                      ELSE error_lines + 1
                    /\ last_alert_times' = DictSet(last_alert_times, key, now)
                    /\ \E removed \in SUBSET written :
                          /\ OldestFirst(written, removed)
                          /\ IF remove_ok
                             THEN snapshots' = written \ removed
                             ELSE /\ removed # {}
                                  /\ \E kept \in removed :
                                        snapshots' = (written \ removed) \cup {kept}

\* _analyze_threat_level, lines 302, 323 and 365: the calls of trigger_alert
LDispatch ==
    /\ wpc = "dispatch"
    /\ IF pending = << >>
       THEN /\ wpc' = "display"
            /\ UNCHANGED <<pending, last_alert_times, alerts, snapshots, log_lines, error_lines,
                           faults>>
       ELSE /\ TriggerAlertCall(Head(pending))
            /\ pending' = Tail(pending)
            /\ UNCHANGED wpc
    /\ UNCHANGED <<variant, running, stop_processing, cap_open, file_exists, cpc,
                   frames, fault, fault_seen, stop_called, current_risk_score>>
    /\ UNCHANGED <<now, alertLocals>>
    /\ UNCHANGED <<detections, clock, spc, risk_score, final_risk, threat_score,
                   safety_alerts>>
    /\ UNCHANGED <<inputVars, startVars, appVars, resetVars>>

\* run(), lines 156-164: the overlay, then the exit key, which leaves the
\* inner loop
LDisplay ==
    /\ wpc = "display"
    /\ wpc' \in {"inner", "finally"}
    /\ UNCHANGED <<variant, running, stop_processing, cap_open, file_exists, cpc,
                   frames, fault, fault_seen, stop_called, current_risk_score>>
    /\ UNCHANGED <<alertVars, frameVars>>
    /\ UNCHANGED <<inputVars, startVars, appVars, resetVars>>

\* run(), lines 166-176: the except and finally clauses and the wait
\* before the camera is opened again
LFinally ==
    /\ wpc = "finally"
    /\ cap_open' = FALSE
    /\ wpc' = "outer"
    /\ UNCHANGED <<variant, running, stop_processing, file_exists, cpc,
                   frames, fault, fault_seen, stop_called, current_risk_score>>
    /\ UNCHANGED <<alertVars, frameVars>>
    /\ UNCHANGED <<inputVars, startVars, appVars, resetVars>>

\* stop(), line 851: self.running = False
LStop ==
    /\ variant = "legacy"
    /\ cpc = "started"
    /\ running' = FALSE
    /\ stop_called' = TRUE
    /\ cpc' = "joining"
    /\ UNCHANGED <<variant, stop_processing, cap_open, file_exists, wpc,
                   frames, fault, fault_seen, current_risk_score>>
    /\ UNCHANGED <<alertVars, frameVars>>
    /\ UNCHANGED <<inputVars, startVars, appVars, resetVars>>

\* stop(), lines 853-863: join(timeout=5.0) returns when the thread has
\* ended or the time is up; then the camera is released
LJoin ==
    /\ variant = "legacy"
    /\ cpc = "joining"
    /\ cap_open' = FALSE
    /\ cpc' = "stopped"
    /\ UNCHANGED <<variant, running, stop_processing, file_exists, wpc,
                   frames, fault, fault_seen, stop_called, current_risk_score>>
    /\ UNCHANGED <<alertVars, frameVars>>
    /\ UNCHANGED <<inputVars, startVars, appVars, resetVars>>

\* ------------------------------------------------------------------------
\* The video worker of the core pipeline (src/src/core/camera_processor.py)
\* ------------------------------------------------------------------------

\* start_video_processing_thread, lines 168-182
CStart ==
    /\ variant = "core"
    /\ cpc = "created"
    /\ stop_processing' = FALSE
    /\ cpc' = "started"
    /\ wpc' = "c_loop"
    /\ UNCHANGED <<variant, running, cap_open, file_exists,
                   frames, fault, fault_seen, stop_called, current_risk_score>>
    /\ UNCHANGED <<alertVars, frameVars>>
    /\ UNCHANGED <<inputVars, startVars, appVars, resetVars>>

\* _video_processing_loop, line 186:
\* while not self.stop_processing and self.is_running
CLoop ==
    /\ wpc = "c_loop"
    /\ wpc' = IF ~stop_processing /\ running THEN "c_get" ELSE "done"
    /\ UNCHANGED <<variant, running, stop_processing, cap_open, file_exists, cpc,
                   frames, fault, fault_seen, stop_called, current_risk_score>>
    /\ UNCHANGED <<alertVars, frameVars>>
    /\ UNCHANGED <<inputVars, startVars, appVars, resetVars>>

\* get_frame_for_video_file, lines 144-155: the error frame and 0.0 when
\* the processor is stopped or no frame can be read
CGetFrame ==
    /\ wpc = "c_get"
    /\ \/ /\ running /\ cap_open
          /\ frames < MaxFrames
          /\ frames' = frames + 1
          /\ fault' = "none"
          /\ wpc' = "c_process"
          /\ UNCHANGED risk_score
       \/ /\ risk_score' = 0
          /\ wpc' = "c_sleep"
          /\ UNCHANGED <<frames, fault>>
    /\ UNCHANGED <<variant, running, stop_processing, cap_open, file_exists, cpc,
                   fault_seen, stop_called, current_risk_score>>
    /\ UNCHANGED alertVars
    /\ UNCHANGED <<detections, clock, spc, final_risk, threat_score, safety_alerts,
                   pending>>
    /\ UNCHANGED <<inputVars, startVars, appVars, resetVars>>

\* process_frame_from_numpy, lines 101-135: zeros and 0.0 when the
\* processor is not running or anything inside raises
CProcessFrame ==
    /\ wpc = "c_process"
    /\ \/ /\ running
          /\ \E d \in WorkerFrames :
                /\ detections' = d
                /\ safety_alerts' = AnalyzeWomenSafetyScenarios(d)
                /\ current_risk_score' = CalculateRiskScore(d, clock \div 60)
                /\ risk_score' = CalculateRiskScore(d, clock \div 60)
          /\ UNCHANGED <<faults, fault, fault_seen>>
       \/ /\ ~running
          /\ risk_score' = 0
          /\ UNCHANGED <<detections, safety_alerts, current_risk_score, faults,
                         fault, fault_seen>>
       \/ /\ running
          /\ faults < MaxFaults
          /\ faults' = faults + 1
          /\ fault' = "analysis"
          /\ fault_seen' = TRUE
          /\ risk_score' = 0
          /\ UNCHANGED <<detections, safety_alerts, current_risk_score>>
    /\ wpc' = "c_sleep"
    /\ UNCHANGED <<variant, running, stop_processing, cap_open, file_exists, cpc,
                   frames, stop_called>>
    /\ UNCHANGED <<now, last_alert_times, alerts, snapshots, log_lines, error_lines, alertLocals>>
    /\ UNCHANGED <<clock, spc, final_risk, threat_score, pending>>
    /\ UNCHANGED <<inputVars, startVars, appVars, resetVars>>

\* _video_processing_loop, line 189: time.sleep(0.033)
CSleep ==
    /\ wpc = "c_sleep"
    /\ wpc' = "c_loop"
    /\ UNCHANGED <<variant, running, stop_processing, cap_open, file_exists, cpc,
                   frames, fault, fault_seen, stop_called, current_risk_score>>
    /\ UNCHANGED <<alertVars, frameVars>>
    /\ UNCHANGED <<inputVars, startVars, appVars, resetVars>>

\* stop(), lines 364-365
CStop ==
    /\ variant = "core"
    /\ cpc = "started"
    /\ running' = FALSE
    /\ stop_processing' = TRUE
    /\ stop_called' = TRUE
    /\ cpc' = "joining"
    /\ UNCHANGED <<variant, cap_open, file_exists, wpc,
                   frames, fault, fault_seen, current_risk_score>>
    /\ UNCHANGED <<alertVars, frameVars>>
    /\ UNCHANGED <<inputVars, startVars, appVars, resetVars>>

\* stop(), lines 367-373: join(timeout=2.0), then cap.release()
CJoin ==
    /\ variant = "core"
    /\ cpc = "joining"
    /\ cap_open' = FALSE
    /\ cpc' = "stopped"
    /\ UNCHANGED <<variant, running, stop_processing, file_exists, wpc,
                   frames, fault, fault_seen, stop_called, current_risk_score>>
    /\ UNCHANGED <<alertVars, frameVars>>
    /\ UNCHANGED <<inputVars, startVars, appVars, resetVars>>

\* ------------------------------------------------------------------------
\* Starting the worker thread: start() of the standalone processor and
\* start_video_processing_thread() of the core processor, called any number
\* of times and from more than one thread
\* ------------------------------------------------------------------------

\* calls of start() on one processor, and so threads it can make
MaxStarts == 3

ThreadIds == 1..MaxStarts

\* the threads that call start()
Callers == {"c1", "c2"}

\* threading.Thread.is_alive(): from the return of Thread.start() to the
\* end of the target
IsAlive(t) == thread_pos[t] \in {"entry", "precheck", "loop"}

\* a call of start() begins
StartCall(c) ==
    /\ start_pc[c] = "idle"
    /\ starts < MaxStarts
    /\ starts' = starts + 1
    /\ start_pc' = [start_pc EXCEPT ![c] = "test"]
    /\ UNCHANGED <<thread_pos, self_thread>>
    /\ UNCHANGED <<alertVars, frameVars, lifeVars, inputVars, appVars, resetVars>>

\* standalone start(), line 83: if not self.running;
\* core start_video_processing_thread, lines 174-176:
\* if self.processing_thread and self.processing_thread.is_alive(): return
StartTest(c) ==
    /\ start_pc[c] = "test"
    /\ start_pc' = [start_pc EXCEPT
          ![c] = IF variant = "legacy"
                 THEN IF ~running THEN "create" ELSE "idle"
                 ELSE IF self_thread # 0 /\ IsAlive(self_thread)
                      THEN "idle" ELSE "create"]
    /\ UNCHANGED <<thread_pos, self_thread, starts>>
    /\ UNCHANGED <<alertVars, frameVars, lifeVars, inputVars, appVars, resetVars>>

\* standalone start(), lines 84-85, core lines 178-181: the thread is made,
\* kept in self.thread and started; the core clears stop_processing first
StartThread(c) ==
    /\ start_pc[c] = "create"
    /\ \E t \in ThreadIds :
          /\ thread_pos[t] = "unborn"
          /\ \A u \in ThreadIds : u < t => thread_pos[u] # "unborn"
          /\ thread_pos' = [thread_pos EXCEPT ![t] = "entry"]
          /\ self_thread' = t
    /\ stop_processing' = IF variant = "core" THEN FALSE ELSE stop_processing
    /\ start_pc' = [start_pc EXCEPT ![c] = "idle"]
    /\ UNCHANGED starts
    /\ UNCHANGED <<variant, running, cap_open, file_exists, cpc, wpc,
                   frames, fault, fault_seen, stop_called, current_risk_score>>
    /\ UNCHANGED <<alertVars, frameVars, inputVars, appVars, resetVars>>

\* standalone run(), line 93: self.running = True; the core loop has no
\* such step
RunEntry(t) ==
    /\ thread_pos[t] = "entry"
    /\ IF variant = "legacy"
       THEN running' = TRUE /\ thread_pos' = [thread_pos EXCEPT ![t] = "precheck"]
       ELSE UNCHANGED running /\ thread_pos' = [thread_pos EXCEPT ![t] = "loop"]
    /\ UNCHANGED <<self_thread, start_pc, starts>>
    /\ UNCHANGED <<variant, stop_processing, cap_open, file_exists, cpc, wpc,
                   frames, fault, fault_seen, stop_called, current_risk_score>>
    /\ UNCHANGED <<alertVars, frameVars, inputVars, appVars, resetVars>>

\* standalone run(), lines 98-105: a missing video file ends the thread
RunPreCheck(t) ==
    /\ thread_pos[t] = "precheck"
    /\ IF file_exists
       THEN UNCHANGED running /\ thread_pos' = [thread_pos EXCEPT ![t] = "loop"]
       ELSE running' = FALSE /\ thread_pos' = [thread_pos EXCEPT ![t] = "done"]
    /\ UNCHANGED <<self_thread, start_pc, starts>>
    /\ UNCHANGED <<variant, stop_processing, cap_open, file_exists, cpc, wpc,
                   frames, fault, fault_seen, stop_called, current_risk_score>>
    /\ UNCHANGED <<alertVars, frameVars, inputVars, appVars, resetVars>>

\* standalone run(), line 107: while self.running; core
\* _video_processing_loop, line 186:
\* while not self.stop_processing and self.is_running.  The thread ends
\* when the test fails
RunLoopExit(t) ==
    /\ thread_pos[t] = "loop"
    /\ IF variant = "legacy" THEN ~running ELSE stop_processing \/ ~running
    /\ thread_pos' = [thread_pos EXCEPT ![t] = "done"]
    /\ UNCHANGED <<self_thread, start_pc, starts>>
    /\ UNCHANGED <<alertVars, frameVars, lifeVars, inputVars, appVars, resetVars>>

\* stop(): standalone line 851, core lines 364-365; the join that follows
\* gives up after its timeout
StopCall ==
    /\ ~stop_called
    /\ starts > 0
    /\ running' = FALSE
    /\ stop_processing' = IF variant = "core" THEN TRUE ELSE stop_processing
    /\ stop_called' = TRUE
    /\ UNCHANGED <<variant, cap_open, file_exists, cpc, wpc,
                   frames, fault, fault_seen, current_risk_score>>
    /\ UNCHANGED <<alertVars, frameVars, inputVars, startVars, appVars, resetVars>>

\* ------------------------------------------------------------------------
\* src/surveillance_system/app.py: /start_analysis, /stop_analysis and
\* /process_live_frame, each request served by its own thread
\* ------------------------------------------------------------------------

\* requests received by the application
MaxRequests == 4

\* the threads of the web server
Handlers == {"r1", "r2"}

\* the JSON body of /start_analysis: source_type and whether video_path
\* names a file ('video_path' defaults to '')
StartBodies == {<<"webcam", "missing">>, <<"video_file", "exists">>,
                <<"video_file", "missing">>, <<"rtsp", "missing">>}

At(r, pos) == rpc[r].at = pos

Goto(r, pos) == [rpc EXCEPT ![r].at = pos]

Idle == [at |-> "idle", video_path |-> "missing"]

\* CameraProcessor.stop(), line 364, on the processor p
Stopped(p) == [is_running EXCEPT ![p] = FALSE]

\* start_analysis, lines 45-47: the body is read and the global source_type
\* set, before the lock is asked for
StartAnalysis(r) ==
    /\ At(r, "idle")
    /\ requests < MaxRequests
    /\ requests' = requests + 1
    /\ \E body \in StartBodies :
          /\ source_type' = body[1]
          /\ rpc' = [rpc EXCEPT ![r] = [at |-> "s_lock", video_path |-> body[2]]]
    /\ UNCHANGED <<camera_processor, is_running, processing_active, processor_lock, deref>>
    /\ UNCHANGED <<alertVars, frameVars, lifeVars, inputVars, startVars, resetVars>>

\* lines 49-51: with processor_lock, the processor in place is stopped
StartAnalysisStop(r) ==
    /\ At(r, "s_lock")
    /\ processor_lock = "free"
    /\ processor_lock' = r
    /\ is_running' = IF camera_processor # 0 THEN Stopped(camera_processor)
                     ELSE is_running
    /\ rpc' = Goto(r, "s_new")
    /\ UNCHANGED <<camera_processor, processing_active, source_type, requests, deref>>
    /\ UNCHANGED <<alertVars, frameVars, lifeVars, inputVars, startVars, resetVars>>

\* lines 53-69: the global source_type is read again; a new processor is
\* made, running from its construction, or an exception leaves the with
\* block and releases the lock
StartAnalysisNew(r) ==
    /\ At(r, "s_new")
    /\ IF source_type = "webcam"
          \/ (source_type = "video_file" /\ rpc[r].video_path = "exists")
       THEN /\ is_running' = Append(is_running, TRUE)
            /\ camera_processor' = Len(is_running) + 1
            /\ rpc' = Goto(r, "s_active")
            /\ UNCHANGED processor_lock
       ELSE /\ processor_lock' = "free"
            /\ rpc' = Goto(r, "s_except")
            /\ UNCHANGED <<is_running, camera_processor>>
    /\ UNCHANGED <<processing_active, source_type, requests, deref>>
    /\ UNCHANGED <<alertVars, frameVars, lifeVars, inputVars, startVars, resetVars>>

\* lines 71-72: processing_active = True, and the lock is released
StartAnalysisActive(r) ==
    /\ At(r, "s_active")
    /\ processing_active' = TRUE
    /\ processor_lock' = "free"
    /\ rpc' = [rpc EXCEPT ![r] = Idle]
    /\ UNCHANGED <<camera_processor, is_running, source_type, requests, deref>>
    /\ UNCHANGED <<alertVars, frameVars, lifeVars, inputVars, startVars, resetVars>>

\* lines 81-84: the except clause, outside the lock
StartAnalysisExcept(r) ==
    /\ At(r, "s_except")
    /\ processing_active' = FALSE
    /\ rpc' = [rpc EXCEPT ![r] = Idle]
    /\ UNCHANGED <<camera_processor, is_running, source_type, processor_lock, requests,
                   deref>>
    /\ UNCHANGED <<alertVars, frameVars, lifeVars, inputVars, startVars, resetVars>>

\* stop_analysis, lines 97-99: with processor_lock, processing_active = False
StopAnalysis(r) ==
    /\ At(r, "idle")
    /\ requests < MaxRequests
    /\ requests' = requests + 1
    /\ processor_lock = "free"
    /\ processor_lock' = r
    /\ processing_active' = FALSE
    /\ rpc' = Goto(r, "t_stop")
    /\ UNCHANGED <<camera_processor, is_running, source_type, deref>>
    /\ UNCHANGED <<alertVars, frameVars, lifeVars, inputVars, startVars, resetVars>>

\* lines 100-101: camera_processor.stop()
StopAnalysisStop(r) ==
    /\ At(r, "t_stop")
    /\ is_running' = IF camera_processor # 0 THEN Stopped(camera_processor)
                     ELSE is_running
    /\ rpc' = Goto(r, "t_clear")
    /\ UNCHANGED <<camera_processor, processing_active, source_type, processor_lock,
                   requests, deref>>
    /\ UNCHANGED <<alertVars, frameVars, lifeVars, inputVars, startVars, resetVars>>

\* lines 102-103: camera_processor = None, source_type = None, and the lock
\* is released
StopAnalysisClear(r) ==
    /\ At(r, "t_clear")
    /\ camera_processor' = 0
    /\ source_type' = "none"
    /\ processor_lock' = "free"
    /\ rpc' = [rpc EXCEPT ![r] = Idle]
    /\ UNCHANGED <<is_running, processing_active, requests, deref>>
    /\ UNCHANGED <<alertVars, frameVars, lifeVars, inputVars, startVars, resetVars>>

\* process_live_frame, lines 125-142: the frame is decoded, then the test
\* `processing_active and camera_processor and source_type == 'webcam'` is
\* made without the lock
ProcessLiveFrame(r) ==
    /\ At(r, "idle")
    /\ requests < MaxRequests
    /\ requests' = requests + 1
    /\ rpc' = IF processing_active /\ camera_processor # 0 /\ source_type = "webcam"
              THEN Goto(r, "p_lock") ELSE rpc
    /\ UNCHANGED <<camera_processor, is_running, processing_active, source_type,
                   processor_lock, deref>>
    /\ UNCHANGED <<alertVars, frameVars, lifeVars, inputVars, startVars, resetVars>>

\* line 143: with processor_lock
ProcessLiveFrameLock(r) ==
    /\ At(r, "p_lock")
    /\ processor_lock = "free"
    /\ processor_lock' = r
    /\ rpc' = Goto(r, "p_body")
    /\ UNCHANGED <<camera_processor, is_running, processing_active, source_type,
                   requests, deref>>
    /\ UNCHANGED <<alertVars, frameVars, lifeVars, inputVars, startVars, resetVars>>

\* lines 145-159: camera_processor.process_frame_from_numpy(frame) on the
\* global as it is now: None raises AttributeError, which the handler
\* answers with status 500; a stopped processor returns zeros and 0.0; a
\* running one analyses the frame.  The lock is released in each case
ProcessLiveFrameBody(r) ==
    /\ At(r, "p_body")
    /\ IF camera_processor = 0
       THEN /\ deref' = "none"
            /\ UNCHANGED <<detections, women_analysed, safety_alerts, risk_score,
                           current_risk_score>>
       ELSE IF is_running[camera_processor]
       THEN LET dets == AnalyzeFrame(person_results, harmful_objects)
                score == CalculateRiskScore(dets, clock \div 60)
            IN  /\ deref' = "running"
                /\ detections' = dets
                /\ women_analysed' = WomenAnalysed(dets)
                /\ safety_alerts' = AnalyzeWomenSafetyScenarios(dets)
                /\ risk_score' = score
                /\ current_risk_score' = score
       ELSE /\ deref' = "stopped"
            /\ risk_score' = 0
            /\ current_risk_score' = 0
            /\ UNCHANGED <<detections, women_analysed, safety_alerts>>
    /\ processor_lock' = "free"
    /\ rpc' = [rpc EXCEPT ![r] = Idle]
    /\ UNCHANGED <<camera_processor, is_running, processing_active, source_type, requests>>
    /\ UNCHANGED <<clock, spc, final_risk, threat_score, pending>>
    /\ UNCHANGED <<variant, running, stop_processing, cap_open, file_exists, cpc, wpc,
                   frames, fault, fault_seen, stop_called>>
    /\ UNCHANGED <<frame_shape, person_results, object_results,
                   harmful_objects, runs, first_run,
                   surrounded_marks>>
    /\ UNCHANGED <<alertVars, startVars, resetVars>>

\* ------------------------------------------------------------------------
\* Specifications of the alert dispatcher
\* ------------------------------------------------------------------------

\* clear_cooldowns has not been called
InitReset ==
    /\ resets = 0
    /\ fresh = {}
    /\ after_reset = [w \in Workers |-> FALSE]

InitAlertState ==
    /\ now = 0
    /\ last_alert_times = << >>
    /\ alerts = EmptyBag
    /\ snapshots = {}
    /\ log_lines = 0
    /\ error_lines = 0
    /\ faults = 0
    /\ calls = 0
    /\ tpc = [w \in Workers |-> "idle"]
    /\ alert_type = [w \in Workers |-> "distress_signal"]
    /\ alert_key = [w \in Workers |-> AlertKey(camera_id[w], "distress_signal")]
    /\ current_time = [w \in Workers |-> NoTime]
    /\ time_since_last_alert = [w \in Workers |-> NoTime]
    /\ snapshot_saved = [w \in Workers |-> "none"]
    /\ db_result = [w \in Workers |-> "none"]
    /\ result = [w \in Workers |-> FALSE]
    /\ lastTrue = << >>
    /\ InitReset

\* the 480 x 640 frame of the web client and of the blank frame returned
\* by process_frame_from_numpy; nothing analysed yet
NoRun == [done |-> FALSE]

InitInput ==
    /\ frame_shape = <<480, 640>>
    /\ person_results = << >>
    /\ harmful_objects = << >>
    /\ runs = 0
    /\ women_analysed = << >>
    /\ first_run = NoRun
    /\ surrounded_marks = << >>
    /\ object_results = << >>

\* no frame has been scored
InitFrame ==
    /\ spc = "input"
    /\ risk_score = 0
    /\ final_risk = 0
    /\ threat_score = 0
    /\ safety_alerts = SafeAnalysis
    /\ pending = << >>

\* __init__ of the standalone CameraProcessor, lines 20-77: not running,
\* no capture, no thread
InitLegacy ==
    /\ variant = "legacy"
    /\ running = FALSE
    /\ cap_open = FALSE

\* __init__ of the core CameraProcessor with a video file, lines 20-89:
\* the capture is opened and is_running set
InitCore ==
    /\ variant = "core"
    /\ running = TRUE
    /\ cap_open = TRUE

\* no thread made, nobody inside start()
InitStart ==
    /\ thread_pos = [t \in ThreadIds |-> "unborn"]
    /\ self_thread = 0
    /\ start_pc = [c \in Callers |-> "idle"]
    /\ starts = 0

\* app.py, lines 21-31: no processor, nothing active, the lock free
InitApp ==
    /\ camera_processor = 0
    /\ is_running = << >>
    /\ processing_active = FALSE
    /\ source_type = "none"
    /\ processor_lock = "free"
    /\ rpc = [r \in Handlers |-> Idle]
    /\ requests = 0
    /\ deref = "no frame"

InitLife ==
    /\ stop_processing = FALSE
    /\ cpc = "created"
    /\ wpc = "unstarted"
    /\ frames = 0
    /\ fault = "none"
    /\ fault_seen = FALSE
    /\ stop_called = FALSE
    /\ current_risk_score = 0
    /\ InitStart
    /\ InitApp

\* run_multi_camera_mode: one processor and one thread per entry of
\* config.CAMERAS, so no two workers have the same camera_id
OneCameraEach ==
    camera_id = [w \in Workers |-> IF w = "w1" THEN "camera_1" ELSE "camera_2"]

Init ==
    /\ OneCameraEach
    /\ InitAlertState
    /\ detections = << >> /\ clock = 12 * 60 /\ InitFrame
    /\ InitLegacy /\ file_exists = TRUE /\ InitLife
    /\ InitInput

Next ==
    \/ Tick
    \/ \E w \in Workers : TriggerAlert(w)

Spec == Init /\ [][Next]_vars

\* one camera worker and a thread that resets the cooldowns
NextReset ==
    \/ Tick
    \/ TriggerAlert(TheWorker)
    \/ ClearCooldowns

SpecReset == Init /\ [][NextReset]_vars

\* a CameraProcessor started twice, or two processors built on the same
\* source, run two workers with one camera_id
InitShared ==
    /\ camera_id = [w \in Workers |-> "camera_1"]
    /\ InitAlertState
    /\ detections = << >> /\ clock = 12 * 60 /\ InitFrame
    /\ InitLegacy /\ file_exists = TRUE /\ InitLife
    /\ InitInput

SpecShared == InitShared /\ [][Next]_vars

\* ------------------------------------------------------------------------
\* Specification of the scoring: any list of detections at any of the
\* times of day, scored by one of the three scoring functions
\* ------------------------------------------------------------------------
InitScore ==
    /\ OneCameraEach
    /\ InitAlertState
    /\ detections \in DetectionLists
    /\ clock \in TimesOfDay
    /\ InitFrame
    /\ InitLegacy /\ file_exists = TRUE /\ InitLife
    /\ InitInput

NextScore ==
    \/ ScoreFrameCore
    \/ ScoreFrameLegacy
    \/ ScoreFrameThreat

SpecScore == InitScore /\ [][NextScore]_vars

\* ------------------------------------------------------------------------
\* Specification of one camera processor: the thread that starts and
\* stops it, and its worker thread
\* ------------------------------------------------------------------------
InitWorker ==
    /\ OneCameraEach
    /\ InitAlertState
    /\ detections = << >>
    /\ clock \in TimesOfDay
    /\ InitFrame
    /\ \/ InitLegacy /\ file_exists \in BOOLEAN
       \/ InitCore /\ file_exists = TRUE
    /\ InitLife
    /\ InitInput

NextWorker ==
    \/ Tick
    \/ LStart
    \/ LRunEntry
    \/ LPreCheck
    \/ LOuter
    \/ LInitCamera
    \/ LInner
    \/ LRead
    \/ LAnalyze
    \/ LThreat
    \/ LDispatch
    \/ LDisplay
    \/ LFinally
    \/ LStop
    \/ LJoin
    \/ CStart
    \/ CLoop
    \/ CGetFrame
    \/ CProcessFrame
    \/ CSleep
    \/ CStop
    \/ CJoin

SpecWorker == InitWorker /\ [][NextWorker]_vars

\* ------------------------------------------------------------------------
\* Specification of the analysis of one frame by the core pipeline: the
\* frame shows a woman in its middle, men around her, possibly a second
\* woman in a corner and knives
\* ------------------------------------------------------------------------

\* number of men and of knives in the frame
MaxMen == 4
MaxObjects == 1

\* keypoints of a person whose nose is at pt, both wrists raised 60 px
\* above it and 20 px to its sides
ArmsRaised(pt) == Pose(<<pt[1], pt[2], 90>>, <<pt[1] - 20, pt[2] - 60, 90>>,
                       <<pt[1] + 20, pt[2] - 60, 90>>)

\* a box of 80 x 120 around a centre
BoxAround(c) == <<c[1] - 40, c[2] - 60, c[1] + 40, c[2] + 60>>

\* the woman in the middle of the frame, with or without raised arms
SceneWomen ==
    {PersonResult(BoxAround(<<320, 240>>), "woman", 35, 50, NoPose),
     PersonResult(BoxAround(<<320, 240>>), "woman", 25, 80, ArmsRaised(<<320, 200>>))}

\* a woman in the top left corner
CornerWoman == PersonResult(BoxAround(<<40, 60>>), "woman", 35, 70, NoPose)

\* men 100, 100, 100, 150, 180 and 200 px from the middle of the frame
SceneMen ==
    <<PersonResult(BoxAround(<<420, 240>>), "man", 40, 90, NoPose),
      PersonResult(BoxAround(<<220, 240>>), "man", 30, 60, NoPose),
      PersonResult(BoxAround(<<320, 340>>), "man", 50, 70, NoPose),
      PersonResult(BoxAround(<<410, 120>>), "man", 20, 80, NoPose),
      PersonResult(BoxAround(<<500, 240>>), "man", 45, 40, NoPose),
      PersonResult(BoxAround(<<120, 240>>), "man", 35, 30, NoPose)>>

\* knives: on the first man and 100 px from the woman, behind the first
\* man, in the bottom right corner, and over the woman's head
SceneKnives ==
    {HarmfulObject("knife", 80, <<420, 240>>),
     HarmfulObject("knife", 80, <<470, 240>>),
     HarmfulObject("knife", 80, <<600, 440>>),
     HarmfulObject("knife", 80, <<320, 200>>)}

\* the elements of seq whose index is in I, in the order of seq
Pick(seq, I) ==
    LET F[k \in 0..Len(seq)] ==
            IF k = 0 THEN << >>
            ELSE IF k \in I THEN Append(F[k - 1], seq[k]) ELSE F[k - 1]
    IN  F[Len(seq)]

\* harmful_objects is sorted by confidence, highest first (line 214)
ByConfidence(objs) ==
    \A k \in 1..(Len(objs) - 1) : objs[k].confidence >= objs[k + 1].confidence

ObjectLists(objs, n) ==
    {l \in UNION {[1..k -> objs] : k \in 0..n} : ByConfidence(l)}

SceneFrames ==
    {<<w>> \o c \o Pick(SceneMen, I) :
        w \in SceneWomen,
        c \in {<< >>, <<CornerWoman>>},
        I \in {J \in SUBSET (1..Len(SceneMen)) : Cardinality(J) <= MaxMen}}

\* __init__ of the core CameraProcessor without a source (the web client
\* sends the frames): is_running is set
InitClient ==
    /\ variant = "core"
    /\ running = TRUE
    /\ cap_open = FALSE

\* everything but the frame and its detector results
InitProcessor ==
    /\ OneCameraEach
    /\ InitAlertState
    /\ detections = << >>
    /\ risk_score = 0
    /\ final_risk = 0
    /\ threat_score = 0
    /\ safety_alerts = SafeAnalysis
    /\ pending = << >>
    /\ spc = "frame"
    /\ InitClient /\ file_exists = TRUE /\ InitLife
    /\ runs = 0
    /\ women_analysed = << >>
    /\ first_run = NoRun
    /\ surrounded_marks = << >>

InitScene ==
    /\ InitProcessor
    /\ object_results = << >>
    /\ clock \in TimesOfDay
    /\ frame_shape = <<480, 640>>
    /\ person_results \in SceneFrames
    /\ harmful_objects \in ObjectLists(SceneKnives, MaxObjects)

NextFrame == ProcessFrameFromNumpy

SpecScene == InitScene /\ [][NextFrame]_vars

\* ------------------------------------------------------------------------
\* Specification of the association: people with small and large boxes,
\* objects at chosen distances from their centres
\* ------------------------------------------------------------------------

\* number of people and of objects in the frame
MaxPeople == 2
MaxHazards == 2

\* a person in a box of 80 x 120, one in a box of 200 x 360, and one in the
\* top right corner
AssocPeople ==
    <<PersonResult(BoxAround(<<230, 250>>), "woman", 35, 50, NoPose),
      PersonResult(<<300, 100, 500, 460>>, "man", 40, 90, NoPose),
      PersonResult(BoxAround(<<590, 60>>), "man", 30, 60, NoPose)>>

\* displacements of 0, 70, 100 and 101 px
Offsets == <<<<0, 0>>, <<70, 0>>, <<60, 80>>, <<0, 100>>, <<0 - 100, 0>>,
             <<20, 99>>, <<0, 101>>, <<101, 0>>>>

\* an object at each displacement from the centre of the first and of the
\* second person; no two of them have the same confidence
AssocObjects ==
    {HarmfulObject("knife", 10 * k + 3 * i,
                   <<Center(AssocPeople[i].bbox)[1] + Offsets[k][1],
                     Center(AssocPeople[i].bbox)[2] + Offsets[k][2]>>) :
        i \in 1..2, k \in 1..Len(Offsets)}

InitAssoc ==
    /\ InitProcessor
    /\ object_results = << >>
    /\ clock = 12 * 60
    /\ frame_shape = <<480, 640>>
    /\ person_results \in {Pick(AssocPeople, I) :
                             I \in {J \in SUBSET (1..Len(AssocPeople)) :
                                       Cardinality(J) <= MaxPeople}}
    /\ harmful_objects \in ObjectLists(AssocObjects, MaxHazards)

SpecAssoc == InitAssoc /\ [][NextFrame]_vars

\* ------------------------------------------------------------------------
\* Specification of the analysis of a frame that shows one woman and nobody
\* else: frames of several shapes, the box anywhere in the frame
\* ------------------------------------------------------------------------

\* the box is placed at the multiples of an eighth of the width and of the
\* height of the frame, up to GridSteps eighths
GridSteps == 6

\* shapes (h, w) of the frames
FrameShapes == {<<480, 640>>, <<240, 320>>, <<640, 480>>, <<720, 1280>>, <<1080, 1920>>}

\* boxes of an eighth and of a quarter of the frame
LoneBoxes(shape) ==
    {<<(shape[2] * a) \div 8, (shape[1] * b) \div 8,
       (shape[2] * a) \div 8 + (shape[2] * s) \div 8,
       (shape[1] * b) \div 8 + (shape[1] * s) \div 8>> :
        a \in 0..GridSteps, b \in 0..GridSteps, s \in 1..2}

InitLone ==
    /\ InitProcessor
    /\ object_results = << >>
    /\ clock = 12 * 60
    /\ frame_shape \in FrameShapes
    /\ person_results \in {<<PersonResult(box, "woman", 35, 50, NoPose)>> :
                              box \in LoneBoxes(frame_shape)}
    /\ harmful_objects = << >>

SpecLone == InitLone /\ [][NextFrame]_vars

\* ------------------------------------------------------------------------
\* Specification of the analysis of a frame that shows one woman, with
\* keypoint arrays of every length and wrists at chosen places
\* ------------------------------------------------------------------------

\* the first n rows of the keypoints
Truncated(keypoints, n) ==
    [present |-> TRUE, points |-> SubSeq(keypoints.points, 1, n)]

\* the nose at (320, 200); the wrists above, level with and below it, the
\* left wrist up to 200 px to its side; confidences 0.9 and 0.5
PoseInputs ==
    {NoPose} \cup
    {Truncated(Pose(<<320, 200, 90>>,
                    <<320 + dxl, 200 + dy, c>>,
                    <<320 + dxr, 200 + dy, c>>), n) :
        n \in 0..NumKeypoints,
        dxl \in {0 - 200, 0 - 80, 0 - 79, 0, 80},
        dxr \in {20, 300},
        dy \in {0 - 60, 0 - 51, 0 - 50, 0, 60},
        c \in {90, 50}}

InitPose ==
    /\ InitProcessor
    /\ object_results = << >>
    /\ clock = 12 * 60
    /\ frame_shape = <<480, 640>>
    /\ person_results \in {<<PersonResult(BoxAround(<<320, 240>>), "woman", 35, 50, kp)>> :
                              kp \in PoseInputs}
    /\ harmful_objects = << >>

SpecPose == InitPose /\ [][NextFrame]_vars

\* ------------------------------------------------------------------------
\* Specification of the scoring of the reference scenarios of
\* demo_risk_scoring.py and quick_test.py: the boxes placed anywhere the
\* scenario allows, the detections listed in any order, at any of the times
\* of day
\* ------------------------------------------------------------------------

\* number of places a man of a scenario can stand at
MaxPlaces == 4

\* a detection of the test cases: no 'confidence' key, so 0.5 is taken
RefWoman(c, distress) == Person(BoxAround(c), "woman", 25, 50, distress, << >>, NoPose)
RefMan(c) == Person(BoxAround(c), "man", 30, 50, FALSE, << >>, NoPose)

\* where the woman stands
RefCentres == {<<330, 260>>, <<200, 200>>}

\* where a man stands, relative to the woman: every place is within 150 px
\* of her, the first two at exactly 150 px
RefOffsets == <<<<0 - 150, 0>>, <<90, 120>>, <<0, 0 - 100>>, <<60, 0>>, <<0 - 30, 40>>>>

\* s with x put at position k
InsertAt(s, k, x) == SubSeq(s, 1, k - 1) \o <<x>> \o SubSeq(s, k, Len(s))

\* the lists of a woman and n men at different places, in every order
RefGroups(distress, n) ==
    {InsertAt([i \in 1..n |-> RefMan(<<c[1] + RefOffsets[p[i]][1],
                                       c[2] + RefOffsets[p[i]][2]>>)],
              k, RefWoman(c, distress)) :
        c \in RefCentres,
        k \in 1..(n + 1),
        p \in {q \in [1..n -> 1..Min(MaxPlaces, Len(RefOffsets))] :
                  \A i, j \in 1..n : i # j => q[i] # q[j]}}

\* the five test cases
ReferenceScenarios ==
    {<< >>}
    \cup {<<RefWoman(c, d)>> : c \in RefCentres, d \in BOOLEAN}
    \cup RefGroups(FALSE, 3)
    \cup RefGroups(TRUE, 2)

InitReference ==
    /\ OneCameraEach
    /\ InitAlertState
    /\ detections \in ReferenceScenarios
    /\ clock \in TimesOfDay
    /\ InitFrame
    /\ InitLegacy /\ file_exists = TRUE /\ InitLife
    /\ InitInput

SpecReference == InitReference /\ [][NextScore]_vars

\* ------------------------------------------------------------------------
\* Specification of the starting of the worker: one processor of either
\* pipeline, start() called up to MaxStarts times by two threads, stop()
\* called at most once
\* ------------------------------------------------------------------------
InitStarting ==
    /\ OneCameraEach
    /\ InitAlertState
    /\ detections = << >>
    /\ clock = 12 * 60
    /\ InitFrame
    /\ \/ InitLegacy /\ file_exists \in BOOLEAN
       \/ InitCore /\ file_exists = TRUE
    /\ InitLife
    /\ InitInput

NextStarting ==
    \/ \E c \in Callers : StartCall(c) \/ StartTest(c) \/ StartThread(c)
    \/ \E t \in ThreadIds : RunEntry(t) \/ RunPreCheck(t) \/ RunLoopExit(t)
    \/ StopCall

SpecStarting == InitStarting /\ [][NextStarting]_vars

\* ------------------------------------------------------------------------
\* Specification of the web application: up to MaxRequests requests of the
\* three kinds, served by two threads; every frame sent shows one woman
\* ------------------------------------------------------------------------
InitRequests ==
    /\ InitProcessor
    /\ object_results = << >>
    /\ clock = 12 * 60
    /\ frame_shape = <<480, 640>>
    /\ person_results = <<PersonResult(BoxAround(<<320, 240>>), "woman", 35, 50, NoPose)>>
    /\ harmful_objects = << >>

NextRequests ==
    \E r \in Handlers :
       \/ StartAnalysis(r)
       \/ StartAnalysisStop(r)
       \/ StartAnalysisNew(r)
       \/ StartAnalysisActive(r)
       \/ StartAnalysisExcept(r)
       \/ StopAnalysis(r)
       \/ StopAnalysisStop(r)
       \/ StopAnalysisClear(r)
       \/ ProcessLiveFrame(r)
       \/ ProcessLiveFrameLock(r)
       \/ ProcessLiveFrameBody(r)

SpecRequests == InitRequests /\ [][NextRequests]_vars

\* ------------------------------------------------------------------------
\* Specification of the housekeeping: one worker, and a snapshot directory
\* that already holds files when the program starts
\* ------------------------------------------------------------------------

\* files found in snapshot_dir at the start
MaxOldFiles == 3

\* the files left by an earlier run, two by two of the same age
OldFiles ==
    {[name |-> <<"camera_1", "distress_signal", 0 - k>>,
      mtime |-> 0 - 10 * ((k + 1) \div 2)] : k \in 1..MaxOldFiles}

InitHousekeeping ==
    /\ OneCameraEach
    /\ now = 0
    /\ last_alert_times = << >>
    /\ alerts = EmptyBag
    /\ snapshots \in SUBSET OldFiles
    /\ log_lines = 0
    /\ error_lines = 0
    /\ faults = 0
    /\ calls = 0
    /\ tpc = [w \in Workers |-> "idle"]
    /\ alert_type = [w \in Workers |-> "distress_signal"]
    /\ alert_key = [w \in Workers |-> AlertKey(camera_id[w], "distress_signal")]
    /\ current_time = [w \in Workers |-> NoTime]
    /\ time_since_last_alert = [w \in Workers |-> NoTime]
    /\ snapshot_saved = [w \in Workers |-> "none"]
    /\ db_result = [w \in Workers |-> "none"]
    /\ result = [w \in Workers |-> FALSE]
    /\ lastTrue = << >>
    /\ InitReset
    /\ detections = << >> /\ clock = 12 * 60 /\ InitFrame
    /\ InitLegacy /\ file_exists = TRUE /\ InitLife
    /\ InitInput

NextHousekeeping ==
    \/ Tick
    \/ TriggerAlert(TheWorker)

SpecHousekeeping == InitHousekeeping /\ [][NextHousekeeping]_vars

\* ------------------------------------------------------------------------
\* Specification of the validation of the object boxes: a woman, with or
\* without a man next to her, and boxes of the object detector on her, in
\* the corner, turned over, flat, tiny, huge and thin
\* ------------------------------------------------------------------------

\* number of boxes of the object detector in the frame
MaxBoxes == 2

HazardPeople ==
    {<<PersonResult(BoxAround(<<320, 240>>), "woman", 35, 50, NoPose)>>,
     <<PersonResult(BoxAround(<<320, 240>>), "woman", 35, 50, NoPose),
       PersonResult(BoxAround(<<420, 240>>), "man", 40, 90, NoPose)>>}

HazardBoxes ==
    <<ObjectBox("baseball bat", 80, 295, 220, 345, 260),
      ObjectBox("baseball bat", 81, 345, 260, 295, 220),
      ObjectBox("baseball bat", 82, 345, 220, 295, 260),
      ObjectBox("baseball bat", 83, 320, 220, 320, 260),
      ObjectBox("baseball bat", 84, 295, 240, 345, 240),
      ObjectBox("knife", 50, 295, 220, 345, 260),
      ObjectBox("knife", 51, 345, 260, 295, 220),
      ObjectBox("knife", 5, 295, 220, 345, 260),
      ObjectBox("scissors", 19, 295, 220, 345, 260),
      ObjectBox("scissors", 19, 345, 260, 295, 220),
      ObjectBox("fork", 18, 295, 220, 345, 260),
      ObjectBox("cup", 90, 295, 220, 345, 260),
      ObjectBox("baseball bat", 70, 560, 400, 610, 440),
      ObjectBox("knife", 60, 310, 230, 330, 245),
      ObjectBox("baseball bat", 75, 0, 0, 640, 400),
      ObjectBox("baseball bat", 76, 300, 100, 305, 400)>>

InitHazard ==
    /\ InitProcessor
    /\ clock \in TimesOfDay
    /\ frame_shape = <<480, 640>>
    /\ person_results \in HazardPeople
    /\ harmful_objects = << >>
    /\ \E I \in SUBSET (1..Len(HazardBoxes)) :
          /\ Cardinality(I) <= MaxBoxes
          /\ object_results = Pick(HazardBoxes, I)

NextHazard == ProcessFrameFromNumpyObjects

SpecHazard == InitHazard /\ [][NextHazard]_vars

\* ------------------------------------------------------------------------
\* Properties of the alert dispatcher
\* ------------------------------------------------------------------------

\* the (camera, alert type) pair of the current or last call of worker w
CallKey(w) == <<camera_id[w], alert_type[w]>>

\* worker w returns from trigger_alert in this step
Returns(w) == tpc[w] # "idle" /\ tpc'[w] = "idle"

\* worker w has passed the cooldown test and not yet returned
Accepted(w) == tpc[w] \in {"snapshot", "insert", "update", "cleanup"}

RowOf(w) == {r \in BagToSet(alerts) :
                /\ r.camera_id = camera_id[w]
                /\ r.alert_type = alert_type[w]
                /\ r.timestamp >= current_time[w]}

\* C1: once a call for a key has returned True at time t, every later call for
\* that key made less than alert_cooldown after t returns False without
\* calling insert_alert, and a call made alert_cooldown or more after t
\* returns True again.
C1_CooldownGate ==
    [][\A w \in Workers :
          (Returns(w) /\ CallKey(w) \in DOMAIN lastTrue) =>
             IF current_time[w] - lastTrue[CallKey(w)] < alert_cooldown
             THEN /\ result'[w] = FALSE
                  /\ db_result'[w] = "none"
                  /\ alerts' = alerts
             ELSE result'[w] = TRUE]_vars

\* a call made inside the window of an accepted alert has been turned down
\* and has written no row
C1_Witness ==
    \E w \in Workers :
       /\ tpc[w] = "idle"
       /\ result[w] = FALSE
       /\ CallKey(w) \in DOMAIN lastTrue
       /\ current_time[w] - lastTrue[CallKey(w)] = alert_cooldown - 1
       /\ db_result[w] = "none"

\* C2: a call is accepted exactly when its key has no accepted trigger before
\* it or at least alert_cooldown seconds have passed since the last accepted
\* one; at exactly alert_cooldown it is accepted.
C2_AcceptedIff ==
    [][\A w \in Workers :
          Returns(w) =>
             (result'[w] = TRUE <=>
                \/ CallKey(w) \notin DOMAIN lastTrue
                \/ current_time[w] - lastTrue[CallKey(w)] >= alert_cooldown)]_vars

\* a call made exactly alert_cooldown seconds after the last accepted one
\* has passed the cooldown test
C2_Witness ==
    \E w \in Workers :
       /\ Accepted(w)
       /\ CallKey(w) \in DOMAIN lastTrue
       /\ current_time[w] - lastTrue[CallKey(w)] = alert_cooldown
       /\ time_since_last_alert[w] = alert_cooldown

\* C3: a call rejected by the cooldown prints nothing, writes no snapshot and
\* no row and leaves last_alert_times as it was, so the stored time is still
\* the time of the last accepted call.
C3_RejectIsNoOp ==
    [][\A w \in Workers :
          /\ (tpc[w] = "idle" /\ tpc'[w] = "check") => UNCHANGED sharedAlertState
          /\ (tpc[w] = "check" /\ tpc'[w] = "idle") =>
                /\ UNCHANGED sharedAlertState
                /\ CallKey(w) \in DOMAIN lastTrue
                /\ CallKey(w) \in DOMAIN last_alert_times'
                /\ last_alert_times'[CallKey(w)] = lastTrue[CallKey(w)]]_vars

\* a call has been rejected some time after the accepted one, and the
\* stored time is still that of the accepted call
C3_Witness ==
    \E w \in Workers :
       /\ tpc[w] = "idle"
       /\ result[w] = FALSE
       /\ CallKey(w) \in DOMAIN lastTrue
       /\ CallKey(w) \in DOMAIN last_alert_times
       /\ last_alert_times[CallKey(w)] = lastTrue[CallKey(w)]
       /\ current_time[w] > lastTrue[CallKey(w)]

\* C4: only a call for (camera, type) changes the time stored for
\* (camera, type); a call is rejected only because of an accepted call for
\* its own camera and type; the dict has entries for such pairs only.
C4_PerKey ==
    /\ [](DOMAIN last_alert_times \subseteq Keys)
    /\ [][/\ \A k \in (DOMAIN last_alert_times) \cup (DOMAIN last_alert_times') :
               (\/ k \notin DOMAIN last_alert_times
                \/ k \notin DOMAIN last_alert_times'
                \/ last_alert_times'[k] # last_alert_times[k])
               => \E w \in Workers : /\ tpc[w] = "update"
                                     /\ tpc'[w] # "update"
                                     /\ k = CallKey(w)
          /\ \A w \in Workers :
               (Returns(w) /\ result'[w] = FALSE) =>
                  /\ CallKey(w) \in DOMAIN lastTrue
                  /\ current_time[w] - lastTrue[CallKey(w)] < alert_cooldown]_vars

\* a call has been accepted while another camera and another alert type of
\* its own camera are in their cooldown
C4_Witness ==
    \E w \in Workers :
       /\ Accepted(w)
       /\ \E k \in DOMAIN last_alert_times :
             /\ k[1] # camera_id[w]
             /\ current_time[w] - last_alert_times[k] < alert_cooldown
       /\ \E k \in DOMAIN last_alert_times :
             /\ k[1] = camera_id[w]
             /\ k[2] # alert_type[w]
             /\ current_time[w] - last_alert_times[k] < alert_cooldown

\* C29: an entry of last_alert_times, once written, is never removed and its
\* timestamp never decreases, except through clear_cooldowns; after
\* clear_cooldowns the map is empty, and the first call of trigger_alert
\* begun for a key after the reset is accepted.
C29_CooldownReset ==
    [][/\ resets' = resets =>
             \A k \in DOMAIN last_alert_times :
                /\ k \in DOMAIN last_alert_times'
                /\ last_alert_times'[k] >= last_alert_times[k]
       /\ resets' # resets => last_alert_times' = << >>
       /\ \A w \in Workers :
             (Returns(w) /\ after_reset[w]) => result'[w]]_vars

\* C5: of the calls made for one key by different workers within one
\* cooldown window, at most one is accepted (and so at most one row is
\* written).
C5_AtMostOneAccepted ==
    \A v, w \in Workers :
       (v # w /\ Accepted(v) /\ Accepted(w) /\ CallKey(v) = CallKey(w)) =>
          \/ current_time[v] - current_time[w] >= alert_cooldown
          \/ current_time[w] - current_time[v] >= alert_cooldown

\* C10: an accepted call whose snapshot could not be written still calls
\* insert_alert (and the row is there when the database took it), records
\* the time of the alert and returns True.
C10_SnapshotFailureTolerated ==
    [][\A w \in Workers :
          (Returns(w) /\ snapshot_saved'[w] = "failed") =>
             /\ result'[w] = TRUE
             /\ db_result'[w] # "none"
             /\ db_result'[w] = "stored" => RowOf(w) # {}
             /\ alert_key[w] \in DOMAIN last_alert_times'
             /\ last_alert_times'[alert_key[w]] = current_time[w]]_vars

\* a call whose snapshot failed has stored its row and returned True
C10_Witness ==
    \E w \in Workers :
       /\ tpc[w] = "idle"
       /\ snapshot_saved[w] = "failed"
       /\ result[w] = TRUE
       /\ db_result[w] = "stored"
       /\ RowOf(w) # {}
       /\ last_alert_times[alert_key[w]] = current_time[w]

\* the positions of a worker inside trigger_alert
CallPositions == {"idle", "check", "snapshot", "insert", "update", "cleanup"}

\* C11: when the write of the row fails, insert_alert prints its [ERROR]
\* line and nothing is raised: the call of trigger_alert goes on to its
\* next statement, and no step of that call, up to its return, writes a row.
C11_InsertFailureContained ==
    /\ [](\A w \in Workers : tpc[w] \in CallPositions)
    /\ [][\A w \in Workers :
             /\ (tpc[w] = "insert" /\ db_result'[w] = "failed") =>
                   /\ error_lines' = error_lines + 1
                   /\ alerts' = alerts
                   /\ tpc'[w] = "update"
             /\ (tpc'[w] # tpc[w] /\ db_result'[w] = "failed") =>
                   alerts' = alerts]_vars

\* a call whose row could not be written has printed the error, kept its
\* snapshot and returned, and the table has no row for it
C11_Witness ==
    \E w \in Workers :
       /\ tpc[w] = "idle"
       /\ db_result[w] = "failed"
       /\ snapshot_saved[w] = "ok"
       /\ error_lines = 1
       /\ alerts = EmptyBag
       /\ alert_key[w] \in DOMAIN last_alert_times

\* C22: every call of trigger_alert that returns True has stored one row
\* for its key, and the time of an alert is recorded in last_alert_times
\* only when its row was stored: a failed write never starts a cooldown.
C22_CooldownOnlyWhenStored ==
    [][\A w \in Workers :
          /\ (Returns(w) /\ result'[w]) => db_result[w] = "stored"
          /\ (tpc[w] = "update" /\ last_alert_times' # last_alert_times) =>
                db_result[w] = "stored"]_vars

\* worker w leaves the housekeeping in this step
Cleans(w) == tpc[w] = "cleanup" /\ tpc'[w] = "idle"

\* no file is removed in this step while an older one is kept
OldestRemoved ==
    \A r \in snapshots \ snapshots' : \A k \in snapshots' : r.mtime <= k.mtime

C12_ThreatLevelPriority ==
    /\ [](spc = "core" =>
            LET level == safety_alerts.overall_threat_level
                danger == safety_alerts.women_in_danger # << >>
                surrounded == safety_alerts.surrounded_women # << >>
                distress == safety_alerts.distress_signals # << >>
                lone == safety_alerts.lone_women # << >>
            IN  /\ level = "CRITICAL" <=> danger
                /\ level = "HIGH" <=> ~danger /\ surrounded
                /\ level = "MODERATE" <=> ~danger /\ ~surrounded /\ distress
                /\ level = "LOW" <=> ~danger /\ ~surrounded /\ ~distress /\ lone
                /\ level = "SAFE" <=> ~danger /\ ~surrounded /\ ~distress /\ ~lone)
    /\ [][runs' # runs =>
             /\ detections' = AnalyzeFrame(person_results, harmful_objects)
             /\ UNCHANGED <<person_results, harmful_objects>>
             /\ UNCHANGED <<last_alert_times, alerts, snapshots>>]_vars

\* a frame with a surrounded woman in distress and a lone woman, and nobody
\* in danger, is rated HIGH
C12_Witness ==
    /\ spc = "core"
    /\ safety_alerts.women_in_danger = << >>
    /\ safety_alerts.surrounded_women # << >>
    /\ safety_alerts.distress_signals # << >>
    /\ safety_alerts.lone_women # << >>
    /\ safety_alerts.overall_threat_level = "HIGH"

\* the entry appended to the list of person for obj
EntryOf(person, obj) ==
    [type |-> obj.class, confidence |-> obj.confidence,
     distance |-> Dist2(Center(person.bbox), obj.center)]

\* person has an entry for obj
HasEntry(person, obj) ==
    \E k \in 1..Len(person.harmful_objects_nearby) :
       person.harmful_objects_nearby[k] = EntryOf(person, obj)

\* C13: an object whose centre is exactly 100 px from the centre of a
\* person's box is associated with the person, and one whose centre is
\* 101 px from it is not.
C13_Boundary ==
    spc = "core" =>
       \A i \in 1..Len(detections) : \A k \in 1..Len(harmful_objects) :
          LET person == detections[i]
              obj == harmful_objects[k]
              distance2 == Dist2(Center(person.bbox), obj.center)
          IN  /\ distance2 = 100 * 100 => HasEntry(person, obj)
              /\ distance2 = 101 * 101 => ~HasEntry(person, obj)

\* C13 (amended): an object whose centre is exactly 100 px from the centre
\* of a person's box is associated with the person; one whose centre is
\* 101 px from it is not associated unless its centre lies inside the box.
C13_BoundaryOutsideBox ==
    spc = "core" =>
       \A i \in 1..Len(detections) : \A k \in 1..Len(harmful_objects) :
          LET person == detections[i]
              obj == harmful_objects[k]
              distance2 == Dist2(Center(person.bbox), obj.center)
          IN  /\ distance2 = 100 * 100 => HasEntry(person, obj)
              /\ (distance2 = 101 * 101 /\ ~Inside(obj.center, person.bbox))
                    => ~HasEntry(person, obj)

\* a person has one object at 100 px outside the box, which is associated,
\* and one at 101 px outside the box, which is not
C13_Witness ==
    /\ spc = "core"
    /\ \E i \in 1..Len(detections) : \E j, k \in 1..Len(harmful_objects) :
          LET person == detections[i]
          IN  /\ Dist2(Center(person.bbox), harmful_objects[j].center) = 100 * 100
              /\ ~Inside(harmful_objects[j].center, person.bbox)
              /\ HasEntry(person, harmful_objects[j])
              /\ Dist2(Center(person.bbox), harmful_objects[k].center) = 101 * 101
              /\ ~Inside(harmful_objects[k].center, person.bbox)
              /\ ~HasEntry(person, harmful_objects[k])
              /\ Len(person.harmful_objects_nearby) = 1

\* obj is one of the objects the claim assigns to person
InBoxOrWithin100(person, obj) ==
    \/ /\ person.bbox[1] <= obj.center[1] /\ obj.center[1] <= person.bbox[3]
       /\ person.bbox[2] <= obj.center[2] /\ obj.center[2] <= person.bbox[4]
    \/ Dist2(Center(person.bbox), obj.center) <= 100 * 100

\* C14: after the association of freshly built detections, the list of each
\* person has one entry for every object whose centre is inside the person's
\* box or within 100 px of its centre, and no other entry; has_harmful_object
\* is set exactly when the list is not empty; no person is lost, whatever the
\* number of people and of objects.
C14_AssociationExact ==
    (spc = "core" /\ runs = 1) =>
       /\ Len(detections) = Len(person_results)
       /\ \A i \in 1..Len(detections) :
             LET person == detections[i]
                 mine == {k \in 1..Len(harmful_objects) :
                             InBoxOrWithin100(person, harmful_objects[k])}
             IN  /\ Len(person.harmful_objects_nearby) = Cardinality(mine)
                 /\ \A k \in mine :
                       Cardinality({j \in 1..Len(person.harmful_objects_nearby) :
                                       person.harmful_objects_nearby[j]
                                          = EntryOf(person, harmful_objects[k])})
                       = Cardinality({j \in mine :
                                         EntryOf(person, harmful_objects[j])
                                            = EntryOf(person, harmful_objects[k])})
                 /\ person.has_harmful_object <=> person.harmful_objects_nearby # << >>

\* one object is associated with two people, one of whom has it inside the
\* box at more than 100 px, and one person carries two objects
C14_Witness ==
    /\ spc = "core" /\ runs = 1
    /\ \E k \in 1..Len(harmful_objects) : \E i, j \in 1..Len(detections) :
          /\ i # j
          /\ HasEntry(detections[i], harmful_objects[k])
          /\ HasEntry(detections[j], harmful_objects[k])
          /\ Dist2(Center(detections[j].bbox), harmful_objects[k].center) > 100 * 100
    /\ \E i \in 1..Len(detections) : Len(detections[i].harmful_objects_nearby) = 2

\* the men of the frame whose centre is within 150 px of the centre of the
\* woman
MenWithin150(woman) ==
    SelectSeq(detections,
              LAMBDA d : /\ d.gender = "man"
                         /\ Dist2(Center(woman.bbox), Center(d.bbox)) <= 150 * 150)

\* the frame shows one woman and three men, all three within 150 px of her
OneWomanThreeMen ==
    /\ spc = "core"
    /\ Len(detections) = 4
    /\ Len(women_analysed) = 1
    /\ Len(MenWithin150(women_analysed[1].woman)) = 3

\* C15: in a frame with one woman and three men within 150 px of her centre
\* and nobody armed, the woman is surrounded, her threat level is between 0.6
\* and 1.0 and her analysis is in surrounded_women.
C15_SurroundedByThree ==
    (/\ OneWomanThreeMen
     /\ \A i \in 1..Len(detections) : ~detections[i].has_harmful_object) =>
       LET analysis == women_analysed[1].woman_analysis
       IN  /\ analysis.is_surrounded
           /\ 10 * analysis.threat_level >= 6 * ThreatDenom
           /\ analysis.threat_level <= ThreatDenom
           /\ \E k \in 1..Len(safety_alerts.surrounded_women) :
                 safety_alerts.surrounded_women[k] = analysis

\* C16: in a frame with one woman and three men within 150 px of her centre,
\* of whom at least one has a harmful object, the threat level of the woman
\* is exactly 1.0 and her analysis is in women_in_danger and in
\* surrounded_women.
C16_ArmedManAmongThree ==
    (/\ OneWomanThreeMen
     /\ \E k \in 1..3 : MenWithin150(women_analysed[1].woman)[k].has_harmful_object) =>
       LET analysis == women_analysed[1].woman_analysis
       IN  /\ analysis.threat_level = ThreatDenom
           /\ \E k \in 1..Len(safety_alerts.women_in_danger) :
                 safety_alerts.women_in_danger[k] = analysis
           /\ \E k \in 1..Len(safety_alerts.surrounded_women) :
                 safety_alerts.surrounded_women[k] = analysis

\* the woman has three men around her, one of them with a knife that is not
\* associated with her, and is in both lists
C16_Witness ==
    /\ OneWomanThreeMen
    /\ \E k \in 1..3 : MenWithin150(women_analysed[1].woman)[k].has_harmful_object
    /\ ~women_analysed[1].woman.has_harmful_object
    /\ women_analysed[1].woman_analysis.threat_level = ThreatDenom
    /\ safety_alerts.women_in_danger = <<women_analysed[1].woman_analysis>>
    /\ safety_alerts.surrounded_women = <<women_analysed[1].woman_analysis>>
    /\ safety_alerts.overall_threat_level = "CRITICAL"

\* C17: a woman who is the only detection of the frame is alone and her
\* isolation risk is at least 0.5, wherever her box is and whatever the shape
\* of the frame.
C17_LoneWoman ==
    (spc = "core" /\ Len(detections) = 1 /\ detections[1].gender = "woman") =>
       /\ Len(women_analysed) = 1
       /\ women_analysed[1].woman_analysis.is_alone
       /\ 2 * women_analysed[1].woman_analysis.isolation_risk >= IsolationDenom

\* a woman in the middle of a wide frame, whose isolation risk is the floor
\* of 0.5
C17_Witness ==
    /\ spc = "core"
    /\ frame_shape = <<1080, 1920>>
    /\ Len(detections) = 1
    /\ Center(detections[1].bbox) = <<960, 540>>
    /\ women_analysed[1].woman_analysis.is_alone
    /\ 2 * women_analysed[1].woman_analysis.isolation_risk = IsolationDenom
    /\ safety_alerts.lone_women = << >>

\* the keypoints of the only woman of the frame
TheKeypoints == women_analysed[1].woman.keypoints

\* both wrists are 60 px above the nose, with a confidence of 0.9 on the
\* nose and on both wrists
WristsRaised60 ==
    /\ TheKeypoints.present
    /\ Len(TheKeypoints.points) > 10
    /\ TheKeypoints.points[10][2] = TheKeypoints.points[1][2] - 60
    /\ TheKeypoints.points[11][2] = TheKeypoints.points[1][2] - 60
    /\ TheKeypoints.points[1][3] = 90
    /\ TheKeypoints.points[10][3] = 90
    /\ TheKeypoints.points[11][3] = 90

\* C18: a person whose wrists are both 60 px above the nose, with confidence
\* 0.9 on the three joints, is found in distress, wherever else the keypoints
\* are.
C18_ArmsRaisedIsDistress ==
    (spc = "core" /\ Len(women_analysed) = 1 /\ WristsRaised60) =>
       women_analysed[1].distress.has_distress

\* C19: without keypoints, or with fewer than the 17 keypoints of the
\* skeleton, the person is not found in distress.
C19_ShortKeypoints ==
    (spc = "core" /\ Len(women_analysed) = 1) =>
       ((~TheKeypoints.present \/ Len(TheKeypoints.points) < NumKeypoints)
           => ~women_analysed[1].distress.has_distress)

\* C19 (amended): without keypoints, or with fewer than 11 keypoints (no
\* right wrist), the person is not found in distress.
C19_NoRightWrist ==
    (spc = "core" /\ Len(women_analysed) = 1) =>
       ((~TheKeypoints.present \/ Len(TheKeypoints.points) < 11)
           => /\ ~women_analysed[1].distress.has_distress
              /\ safety_alerts.distress_signals = << >>)

\* an array of 10 keypoints whose left wrist is close to the nose: the
\* defensive posture is noted but the person is not found in distress
C19_Witness ==
    /\ spc = "core"
    /\ Len(women_analysed) = 1
    /\ TheKeypoints.present
    /\ Len(TheKeypoints.points) = 10
    /\ women_analysed[1].distress.indicators = <<"defensive_posture">>
    /\ ~women_analysed[1].distress.has_distress
    /\ safety_alerts.distress_signals = << >>

C27_ThreatLevelFormula ==
    spc = "core" =>
       \A i \in 1..Len(women_analysed) :
          LET woman == women_analysed[i].woman
              analysis == women_analysed[i].woman_analysis
              armed == \/ woman.has_harmful_object
                       \/ \E k \in 1..Len(analysis.nearby_men) :
                             analysis.nearby_men[k].has_harmful_object
          IN  analysis.threat_level =
                 IF armed THEN ThreatDenom
                 ELSE Min(ThreatDenom, Len(analysis.nearby_men))

\* the rule of the spec: at least 2 men with their centre within 150 px of
\* the centre of the woman
SurroundedByTwo(woman, dets) ==
    Len(SelectSeq(dets, LAMBDA p : /\ p.gender = "man"
                                   /\ Dist2(Center(woman.bbox), Center(p.bbox))
                                         <= 150 * 150)) >= 2

\* C28: a woman is surrounded exactly when at least 2 men have their centre
\* within 150 px of hers, both for the scenario classifier that fills
\* surrounded_women and for the check that raises the 'surrounded' alert.
C28_OneSurroundedRule ==
    /\ spc = "core" =>
          \A i \in 1..Len(detections) :
             detections[i].gender = "woman" =>
                ((\E k \in 1..Len(safety_alerts.surrounded_women) :
                     safety_alerts.surrounded_women[k].position
                        = Center(detections[i].bbox))
                 <=> SurroundedByTwo(detections[i], detections))
    /\ spc = "threat" =>
          ((\E k \in 1..Len(pending) : pending[k] = "surrounded")
           <=> \E i \in 1..Len(detections) :
                  /\ detections[i].gender = "woman"
                  /\ SurroundedByTwo(detections[i], detections))

\* a box with a positive width and a positive height
PositiveBox(box) == box.bbox[3] > box.bbox[1] /\ box.bbox[4] > box.bbox[2]

\* C30: a box of the object detector with a non-positive width or a
\* non-positive height is never added to harmful_objects, whatever its class,
\* confidence and area, so the hazard list, the associations and the score
\* of the frame are those of the frame without these boxes.
C30_DegenerateBoxDiscarded ==
    runs > 0 =>
       LET good == SelectSeq(object_results, PositiveBox)
           dets == AnalyzeFrame(person_results, HarmfulObjects(good))
       IN  /\ \A k \in 1..Len(harmful_objects) : PositiveBox(harmful_objects[k])
           /\ harmful_objects = HarmfulObjects(good)
           /\ detections = dets
           /\ risk_score = CalculateRiskScore(dets, clock \div 60)

\* a baseball bat over the threshold whose box is turned over in both
\* directions has the area and the shape of a valid one and lies on a person
\* who is left without a hazard
C30_Witness ==
    /\ runs > 0
    /\ \E j \in 1..Len(object_results) : \E i \in 1..Len(detections) :
          LET box == object_results[j]
          IN  /\ box.class = "baseball bat" /\ box.confidence > 20
              /\ box.bbox[3] < box.bbox[1] /\ box.bbox[4] < box.bbox[2]
              /\ BboxArea(box.bbox) >= MinArea(box.class)
              /\ Inside(Center(box.bbox), detections[i].bbox)
              /\ ~detections[i].has_harmful_object

\* ------------------------------------------------------------------------
\* Properties of the starting of the worker and of the web application
\* ------------------------------------------------------------------------

\* the threads of the processor that are alive
LiveThreads == {t \in ThreadIds : IsAlive(t)}

\* C24: a processor never has more than one live processing thread: a call
\* of start() made while a worker is starting or running makes no second
\* worker.
C24_SingleWorker == Cardinality(LiveThreads) <= 1

\* C25: under every interleaving of the requests a frame is only processed
\* by a processor that exists and has not been stopped: process_live_frame
\* never finds camera_processor cleared or stopped, and whenever
\* processing_active is true while processor_lock is free, camera_processor
\* is set and running.
C25_ProcessorInPlace ==
    /\ deref \in {"no frame", "running"}
    /\ (processing_active /\ processor_lock = "free") =>
          camera_processor # 0 /\ is_running[camera_processor]

\* ------------------------------------------------------------------------
\* Properties of the scoring
\* ------------------------------------------------------------------------

\* C6: whatever the detections and the time of day, the score returned by
\* each of the scoring functions is at least 0 and at most 100.
C6_ScoreInRange ==
    /\ spc = "core" => 0 <= risk_score /\ risk_score <= 100 * Scale
    /\ spc = "legacy" => 0 <= final_risk /\ final_risk <= 100 * Scale
    /\ spc = "threat" => 0 <= threat_score /\ threat_score <= 100

\* C7: for an empty list of detections the core pipeline returns exactly 0,
\* with no base risk and no night factor in it, and a safety analysis whose
\* four lists are empty and whose overall threat level is SAFE.
C7_EmptyFrame ==
    (spc = "core" /\ detections = << >>) =>
       /\ risk_score = 0
       /\ safety_alerts.lone_women = << >>
       /\ safety_alerts.surrounded_women = << >>
       /\ safety_alerts.women_in_danger = << >>
       /\ safety_alerts.distress_signals = << >>
       /\ safety_alerts.overall_threat_level = "SAFE"

\* an empty frame has been scored at night
C7_Witness ==
    /\ spc = "core"
    /\ detections = << >>
    /\ clock \div 60 >= 22
    /\ risk_score = 0
    /\ safety_alerts.overall_threat_level = "SAFE"

\* the women and the men of the frame that was scored
WomenOf(dets) == SelectSeq(dets, LAMBDA p : p.gender = "woman")
MenOf(dets) == SelectSeq(dets, LAMBDA p : p.gender = "man")

\* the frame shows one woman, with or without the distress flag, and n men,
\* each within 150 px of her
WomanWithMen(distress, n) ==
    /\ Len(detections) = n + 1
    /\ Len(WomenOf(detections)) = 1
    /\ Len(MenOf(detections)) = n
    /\ WomenOf(detections)[1].distress = distress
    /\ CountSurroundingMales(LegacyDetection(WomenOf(detections)[1]),
                             LegacyDetections(MenOf(detections))) = n

\* C21: _calculate_risk_score keeps each reference scenario inside its
\* band, wherever the boxes are and whether or not it is night: an empty
\* scene in [0, 5], a single woman in [15, 25], a single woman in distress
\* in [65, 75], a woman with three men within 150 px in [40, 60], a woman in
\* distress with two men within 150 px in [75, 95].
C21_ReferenceBands ==
    spc = "legacy" =>
       /\ detections = << >> => 0 <= final_risk /\ final_risk <= 5 * Scale
       /\ WomanWithMen(FALSE, 0) => 15 * Scale <= final_risk /\ final_risk <= 25 * Scale
       /\ WomanWithMen(TRUE, 0) => 65 * Scale <= final_risk /\ final_risk <= 75 * Scale
       /\ WomanWithMen(FALSE, 3) => 40 * Scale <= final_risk /\ final_risk <= 60 * Scale
       /\ WomanWithMen(TRUE, 2) => 75 * Scale <= final_risk /\ final_risk <= 95 * Scale

\* the ways of listing n detections
Orders(n) == {p \in [1..n -> 1..n] : \A i, j \in 1..n : i # j => p[i] # p[j]}

\* the detections listed in the order p
Listed(dets, p) == [i \in 1..Len(dets) |-> dets[p[i]]]

\* the detections that carry surrounded = True
MarkedSurrounded(dets, marks) == {dets[i] : i \in {k \in 1..Len(dets) : marks[k] = "true"}}

\* C23: the risk score and the 'surrounded' flag of each woman do not depend
\* on the order of the detections: listed in any other order, the same
\* detections get the same score and the same women are flagged.
C23_OrderIndependent ==
    /\ spc = "legacy" =>
          \A p \in Orders(Len(detections)) :
             /\ CalculateRiskScoreLegacy(LegacyDetections(Listed(detections, p)), clock)
                   = final_risk
             /\ MarkedSurrounded(Listed(detections, p),
                                 SurroundedMarks(LegacyDetections(Listed(detections, p))))
                   = MarkedSurrounded(detections, surrounded_marks)
    /\ spc = "core" =>
          \A p \in Orders(Len(detections)) :
             CalculateRiskScore(Listed(detections, p), clock \div 60) = risk_score

\* ------------------------------------------------------------------------
\* Properties of the camera worker
\* ------------------------------------------------------------------------

\* the worker thread is at the test of one of its loops
AtLoopTest == wpc \in {"outer", "inner", "c_loop"}

\* the loop test lets the worker go on
LoopGoesOn ==
    \/ wpc = "outer" /\ running
    \/ wpc = "inner" /\ running /\ cap_open
    \/ wpc = "c_loop" /\ ~stop_processing /\ running

\* C8: once stop() has been called, at whatever point of the life of the
\* worker, the worker finds the stop flag set when it comes to the test of
\* its loop, and so leaves the loop.
C8_StopObserved == (stop_called /\ AtLoopTest) => ~LoopGoesOn

\* the step is the handling of something raised by the analysis or the
\* scoring of the current frame
FaultStep == faults' # faults /\ wpc \in {"analyze", "threat", "c_process"}

====
